---- MODULE Spec2Model ----
(***************************************************************************)
(* Model of the now-playing -> rich-presence pipeline of the repository.   *)
(* Two generations of the program live side by side in the source tree:    *)
(* music_rpc (the package main.py starts) and deezer_rpc (the package the   *)
(* console script of setup.py starts).  The variable pkg says which one a   *)
(* behaviour runs; every operation is translated once per package where     *)
(* the two differ.                                                          *)
(***************************************************************************)
EXTENDS Integers, Sequences, FiniteSets, TLC

VARIABLES
    pkg,                \* which package runs: "music_rpc" or "deezer_rpc"
    \* ---- Config (config/settings.py) ----
    discord_client_ids, \* sequence of <<player, client id>> in dict order
    player_aliases,     \* function lower-case alias -> player
    DISABLED_PLAYERS,   \* set of player names
    update_interval,    \* seconds between polls, as Python types the value
    config_file,        \* what CONFIG_FILE holds
    lastCfg,            \* the last Config call: name, result, exception, file written
    \* ---- DiscordPresenceManager (core/discord_presence.py) ----
    rpc,                \* client id the Presence object was built with, or None
    connected,
    last_title,
    current_client_id,
    \* ---- SongInfoRetriever (core/song_info.py) ----
    song_cache,         \* function cache key -> index of a SongInfo object in heap
    heap,               \* the SongInfo objects the cache holds, in creation order
    last_song_key,
    \* ---- record of the operations made so far (for stating properties) ----
    searches,           \* <<title, artist>> -> times the catalog search was entered
    lastTick,           \* the last probe sample and the track the Aggregator returned

    lastOp,             \* the last Publisher operation: name, argument, result, protocol calls
    prevOp,             \* the operation before it
    \* ---- the application (core/app.py) ----
    running,
    pc,                 \* where the background thread is
    discord_enabled,    \* locals of _run_update_loop
    last_player,
    currently_disabled,
    was_playing,
    \* ---- the now-playing tool as the probe finds it ----
    nowplaying_cli,     \* "installed" or "missing"
    spawns,             \* times the probe has tried to start the tool
    reports,            \* error lines the probe has logged
    \* ---- the tray application (core/tray_icon.py) ----
    update_queue,       \* queue.Queue of UI updates
    menu,               \* what the menu items show
    menu_writer,        \* the thread and handler that modified a menu item last
    ui_pc,              \* where the UI thread is
    \* ---- the external calls of one polling iteration ----
    tick_pc,            \* the call the iteration is at, or Sleeping
    call_state,         \* "idle", "waiting" for the answer, "hung"
    tick_log,           \* how the calls of this iteration ended
    \* ---- a text given to SongInfo._ensure_unicode ----
    raw_text,           \* the text as it came
    norm_text,          \* the text after the calls made so far
    passes,             \* number of _ensure_unicode calls made on it
    \* ---- the probe's player identification (core/song_info.py) ----
    probe_info,         \* what the tool and the process table show
    identified,         \* the player found and the steps that were run
    \* ---- the text of a protocol update (core/discord_presence.py) ----
    track_text,         \* lengths of the track's title, artist, album and player
    update_data,        \* lengths of the text fields of the update call
    \* ---- the presence service's side of the connection ----
    shown,              \* the title the open connection has been given, or None
    \* ---- the iteration of the update loop that is under way ----
    inflight,           \* the track the iteration has fetched and not yet published
    \* ---- the two disabled-player tests made on one player name ----
    tested,             \* the name, the loop's answer, the client id Config gives
    \* ---- the tracks handed to the tray through its update queue ----
    handed,             \* the queued tracks: the object (its place in heap, 0 when it
                        \* is not a cached one) and its fields when it was queued
    rendered            \* what process_ui_updates showed for the track it took last

pubVars == <<rpc, connected, last_title, current_client_id>>
cfgVars == <<discord_client_ids, player_aliases, DISABLED_PLAYERS,
             update_interval, config_file, lastCfg>>
aggVars == <<song_cache, heap, last_song_key>>
opVars  == <<lastOp, prevOp>>
tickVars == <<searches, lastTick>>
loopVars == <<discord_enabled, last_player, currently_disabled, was_playing>>
appVars == <<running, pc, loopVars>>
toolVars == <<nowplaying_cli, spawns, reports>>
uiVars == <<update_queue, menu, menu_writer, ui_pc>>
hangVars == <<tick_pc, call_state, tick_log>>
textVars == <<raw_text, norm_text, passes>>
identVars == <<probe_info, identified>>
payloadVars == <<track_text, update_data>>
peerVars == <<shown>>
raceVars == <<inflight>>
testVars == <<tested>>
shareVars == <<handed, rendered>>
otherVars == <<identVars, payloadVars, peerVars, raceVars, testVars, shareVars>>
sideVars == <<textVars, otherVars>>
envVars == <<toolVars, uiVars, hangVars, sideVars>>

(***************************************************************************)
(* Values                                                                  *)
(***************************************************************************)
None == "<None>"

\* Python truthiness of an optional string
Truthy(x) == x # None /\ x # ""

Packages == {"music_rpc", "deezer_rpc"}

\* track titles and artists the probe can report
Titles == {"Song A", "Song B"}

Artists == {"Artist X"}


\* duration of a track in seconds, when the probe reports one
TrackDuration == 3

\* the catalog search is not followed beyond this many entries per track
MaxSearches == 2

NotPlayingTitle == "Not playing"

\* album art values of a track: a catalog URL or the default asset
ArtUrl == "https://x/cover.jpg"

\* the catalog's artist picture and track link
PicUrl == "https://x/artist.jpg"

LinkUrl == "https://x/track/1"

DefaultCover == "music_logo"

DefaultIcon == "music_icon"

(***************************************************************************)
(* Config                                                                  *)
(***************************************************************************)
DISCORD_CLIENT_ID == "1352843252067209368"

DEFAULT_DISCORD_CLIENT_IDS ==
    << <<"Deezer", "1352674859670310992">>,
       <<"Music",  "1352841157159288894">>,
       <<"iTunes", "1352841157159288894">>,
       <<"Tidal",  "1352842418327912529">> >>

DEFAULT_PLAYER_ALIASES ==
    [a \in {"apple music", "music.app", "musicapp", "applemusic",
            "deezer", "itunes", "tidal"} |->
        CASE a \in {"apple music", "music.app", "musicapp", "applemusic"} -> "Music"
          [] a = "deezer" -> "Deezer"
          [] a = "itunes" -> "iTunes"
          [] a = "tidal"  -> "Tidal"]

DEFAULT_DISABLED_PLAYERS == {"Music"}

\* str.lower() on the names that occur
Lower(s) ==
    CASE s = "Deezer"      -> "deezer"
      [] s = "Music"       -> "music"
      [] s = "Apple Music" -> "apple music"
      [] s = "iTunes"      -> "itunes"
      [] s = "Tidal"       -> "tidal"
      [] s = "Spotify"     -> "spotify"
      [] s = "VLC"         -> "vlc"
      [] s = "YouTube"     -> "youtube"
      [] s = "Unknown"     -> "unknown"
      [] OTHER             -> s

\* dict.get on the ordered client-id table
ClientIdOf(ids, name, default) ==
    LET hits == {i \in 1..Len(ids) : ids[i][1] = name}
    IN  IF hits = {} THEN default
        ELSE ids[CHOOSE i \in hits : \A j \in hits : i <= j][2]

\* Config.get_client_id
get_client_id(player_name) ==
    IF ~Truthy(player_name) THEN DISCORD_CLIENT_ID
    ELSE
      LET player_name_lower == Lower(player_name)
          direct == {i \in 1..Len(discord_client_ids) :
                        Lower(discord_client_ids[i][1]) = player_name_lower}
          normalized_name ==
              IF player_name_lower \in DOMAIN player_aliases
              THEN player_aliases[player_name_lower]
              ELSE IF direct = {} THEN None
              ELSE discord_client_ids[CHOOSE i \in direct : \A j \in direct : i <= j][1]
      IN  IF Truthy(normalized_name) /\ normalized_name \in DISABLED_PLAYERS
          THEN None
          ELSE IF Truthy(normalized_name)
          THEN ClientIdOf(discord_client_ids, normalized_name, DISCORD_CLIENT_ID)
          ELSE DISCORD_CLIENT_ID

(***************************************************************************)
(* Config: values as Python types them, the config file, the mutators.     *)
(* A value is its type, its number (an int as it is, a bool as 0 or 1, a   *)
(* float in tenths) and its text.                                          *)
(***************************************************************************)
PyInt(n) == [type |-> "int",  num |-> n, text |-> ""]
PyBool(b) == [type |-> "bool", num |-> IF b THEN 1 ELSE 0, text |-> ""]
PyFloat(tenths) == [type |-> "float", num |-> tenths, text |-> ""]
PyStr(s) == [type |-> "str",  num |-> 0, text |-> s]
PyNone == [type |-> "NoneType", num |-> 0, text |-> ""]
PyList == [type |-> "list", num |-> 1, text |-> ""]     \* a list of one item
Missing == [type |-> "missing", num |-> 0, text |-> ""]  \* the key is not there

DEFAULT_UPDATE_INTERVAL == 10
MinInterval == 5
MaxInterval == 60

\* bool(x)
PyTruthy(v) ==
    CASE v.type = "str" -> v.text # ""
      [] v.type = "NoneType" -> FALSE
      [] OTHER -> v.num # 0

\* int(text) on the texts that occur: the number a decimal literal writes,
\* ValueError for anything else
IntOfText(t) ==
    CASE t = "4"   -> [err |-> None, val |-> 4]
      [] t = "5"   -> [err |-> None, val |-> 5]
      [] t = "10"  -> [err |-> None, val |-> 10]
      [] t = "15"  -> [err |-> None, val |-> 15]
      [] t = "30"  -> [err |-> None, val |-> 30]
      [] t = "61"  -> [err |-> None, val |-> 61]
      [] t = "123" -> [err |-> None, val |-> 123]
      [] OTHER     -> [err |-> "ValueError", val |-> 0]

\* str(n) on the intervals of the menu
IntText(n) == CASE n = 5 -> "5" [] n = 10 -> "10" [] n = 30 -> "30"

\* int(x): truncation of a float, parsing of a text, TypeError for None and
\* for a container
int(v) ==
    CASE v.type \in {"int", "bool"} -> [err |-> None, val |-> v.num]
      [] v.type = "float" -> [err |-> None, val |-> v.num \div 10]
      [] v.type = "str" -> IntOfText(v.text)
      [] OTHER -> [err |-> "TypeError", val |-> 0]

\* d[k] = v on a dict kept as a sequence of <<key, value>> in insertion order
DictSet(d, k, v) ==
    IF \E i \in 1..Len(d) : d[i][1] = k
    THEN [i \in 1..Len(d) |-> IF d[i][1] = k THEN <<k, v>> ELSE d[i]]
    ELSE Append(d, <<k, v>>)

DictKeys(d) == {d[i][1] : i \in 1..Len(d)}

\* d[k] = v on a dict kept as a function
MapSet(d, k, v) == [x \in DOMAIN d \cup {k} |-> IF x = k THEN v ELSE d[x]]

\* ---- the config file ----
NoField == [type |-> "missing", items |-> <<>>]

\* what open() + json.load() find: no file, text that is not JSON, bytes that
\* are not text, a JSON value that is not an object, or an object
PlainFile(kind) ==
    [kind |-> kind, update_interval |-> Missing, discord_client_ids |-> NoField,
     player_aliases |-> NoField, disabled_players |-> NoField]

ObjectFile(interval, ids, aliases, disabled) ==
    [kind |-> "object", update_interval |-> interval, discord_client_ids |-> ids,
     player_aliases |-> aliases, disabled_players |-> disabled]

\* the Config object: its fields and the file it reads and writes
Cfg ==
    [update_interval |-> update_interval, discord_client_ids |-> discord_client_ids,
     player_aliases |-> player_aliases, DISABLED_PLAYERS |-> DISABLED_PLAYERS,
     config_file |-> config_file]

CfgRet(C, ok, raised, saved) == [C |-> C, ok |-> ok, raised |-> raised, saved |-> saved]

\* Config.save_config
save_config(C) ==
    [C EXCEPT !.config_file =
        ObjectFile(C.update_interval,
                   [type |-> "dict",
                    items |-> [i \in 1..Len(C.discord_client_ids) |->
                                 <<C.discord_client_ids[i][1], PyStr(C.discord_client_ids[i][2])>>]],
                   [type |-> "dict", items |-> C.player_aliases],
                   IF pkg = "music_rpc"
                   THEN [type |-> "list", items |-> C.DISABLED_PLAYERS]
                   ELSE NoField)]

\* set_update_interval without the range check
set_update_interval_unchecked(C, interval) ==
    IF int(interval).err = "ValueError" THEN CfgRet(C, FALSE, None, FALSE)
    ELSE IF int(interval).err # None THEN CfgRet(C, FALSE, int(interval).err, FALSE)
    ELSE CfgRet(save_config([C EXCEPT !.update_interval = PyInt(int(interval).val)]),
                TRUE, None, TRUE)

\* Config.set_update_interval
set_update_interval(C, interval) ==
    IF int(interval).err = "ValueError" THEN CfgRet(C, FALSE, None, FALSE)
    ELSE IF int(interval).err # None THEN CfgRet(C, FALSE, int(interval).err, FALSE)
    ELSE IF MinInterval <= int(interval).val /\ int(interval).val <= MaxInterval
    THEN CfgRet(save_config([C EXCEPT !.update_interval = PyInt(int(interval).val)]),
                TRUE, None, TRUE)
    ELSE CfgRet(C, FALSE, None, FALSE)

\* set_client_id storing the id before it validates it
set_client_id_eager(C, player_name, client_id) ==
    IF ~PyTruthy(player_name) \/ ~PyTruthy(client_id) THEN CfgRet(C, FALSE, None, FALSE)
    ELSE IF player_name.type = "list" \/ client_id.type # "str"
    THEN CfgRet(C, FALSE, "TypeError", FALSE)
    ELSE IF int(client_id).err = "ValueError"
    THEN CfgRet([C EXCEPT !.discord_client_ids =
                    DictSet(@, player_name.text, client_id.text)], FALSE, None, FALSE)
    ELSE CfgRet(save_config([C EXCEPT !.discord_client_ids =
                                DictSet(@, player_name.text, client_id.text)]),
                TRUE, None, TRUE)

\* Config.set_client_id
set_client_id(C, player_name, client_id) ==
    IF ~PyTruthy(player_name) \/ ~PyTruthy(client_id) THEN CfgRet(C, FALSE, None, FALSE)
    ELSE IF int(client_id).err = "ValueError" THEN CfgRet(C, FALSE, None, FALSE)
    ELSE IF int(client_id).err # None THEN CfgRet(C, FALSE, int(client_id).err, FALSE)
    ELSE IF player_name.type = "list" THEN CfgRet(C, FALSE, "TypeError", FALSE)
    ELSE CfgRet(save_config([C EXCEPT !.discord_client_ids =
                                DictSet(@, player_name.text, client_id.text)]),
                TRUE, None, TRUE)

\* Config.add_player_alias
add_player_alias(C, alias, normalized_name) ==
    IF ~PyTruthy(alias) \/ ~PyTruthy(normalized_name) THEN CfgRet(C, FALSE, None, FALSE)
    ELSE IF normalized_name.type = "list" THEN CfgRet(C, FALSE, "TypeError", FALSE)
    ELSE IF normalized_name.type # "str"
            \/ normalized_name.text \notin DictKeys(C.discord_client_ids)
    THEN CfgRet(C, FALSE, None, FALSE)
    ELSE IF alias.type # "str" THEN CfgRet(C, FALSE, "AttributeError", FALSE)
    ELSE CfgRet(save_config([C EXCEPT !.player_aliases =
                                MapSet(@, Lower(alias.text), normalized_name.text)]),
                TRUE, None, TRUE)

\* the loop over config_data['discord_client_ids'].items(): music_rpc takes
\* a text that int() accepts, deezer_rpc anything int() accepts
RECURSIVE load_client_ids(_, _)
load_client_ids(ids, items) ==
    IF items = <<>> THEN ids
    ELSE LET player == items[1][1]
             client_id == items[1][2]
             valid == IF pkg = "music_rpc"
                      THEN /\ player # "" /\ PyTruthy(client_id)
                           /\ client_id.type = "str" /\ int(client_id).err = None
                      ELSE int(client_id).err = None
         IN  load_client_ids(IF valid THEN DictSet(ids, player, client_id.text) ELSE ids,
                             Tail(items))

\* the loop over config_data['player_aliases'].items(): items is a function
\* alias -> value; music_rpc takes the text values, deezer_rpc every value
\* (null is stored as None)
load_aliases(aliases, items) ==
    LET taken == IF pkg = "music_rpc"
                 THEN {a \in DOMAIN items : a # "" /\ items[a] # "" /\ items[a] # None}
                 ELSE DOMAIN items
    IN  [x \in DOMAIN aliases \cup {Lower(a) : a \in taken} |->
            IF \E a \in taken : Lower(a) = x
            THEN items[CHOOSE a \in taken : Lower(a) = x]
            ELSE aliases[x]]

\* music_rpc Config.load_config: isinstance checks on every field; only
\* JSONDecodeError, OSError and KeyError are caught
music_load_config(C) ==
    LET f == C.config_file IN
    CASE f.kind \in {"absent", "unparseable", "list"} -> CfgRet(C, TRUE, None, FALSE)
      [] f.kind = "bad_encoding" -> CfgRet(C, FALSE, "UnicodeDecodeError", FALSE)
      [] f.kind \in {"number", "null", "string"} -> CfgRet(C, FALSE, "TypeError", FALSE)
      [] OTHER ->
           CfgRet([C EXCEPT
                     !.update_interval =
                         IF /\ f.update_interval.type \in {"int", "bool"}
                            /\ MinInterval <= f.update_interval.num
                            /\ f.update_interval.num <= MaxInterval
                         THEN f.update_interval ELSE @,
                     !.discord_client_ids =
                         IF f.discord_client_ids.type = "dict"
                         THEN load_client_ids(@, f.discord_client_ids.items) ELSE @,
                     !.player_aliases =
                         IF f.player_aliases.type = "dict"
                         THEN load_aliases(@, f.player_aliases.items) ELSE @,
                     !.DISABLED_PLAYERS =
                         IF f.disabled_players.type = "list"
                         THEN f.disabled_players.items ELSE @],
                  TRUE, None, FALSE)

\* deezer_rpc Config.load_config: the interval is compared without a type
\* check; every exception is caught and ends the loading where it happened
deezer_load_config(C) ==
    LET f == C.config_file
        interval == f.update_interval
        compares == interval.type \in {"int", "bool", "float"}
        value10 == IF interval.type = "float" THEN interval.num ELSE 10 * interval.num
    IN
    IF f.kind # "object" THEN CfgRet(C, TRUE, None, FALSE)
    ELSE IF interval.type # "missing" /\ ~compares THEN CfgRet(C, TRUE, None, FALSE)
    ELSE CfgRet([C EXCEPT
                   !.update_interval =
                       IF /\ interval.type # "missing"
                          /\ 10 * MinInterval <= value10 /\ value10 <= 10 * MaxInterval
                       THEN interval ELSE @,
                   !.discord_client_ids =
                       IF f.discord_client_ids.type = "dict"
                       THEN load_client_ids(@, f.discord_client_ids.items) ELSE @,
                   !.player_aliases =
                       IF f.player_aliases.type = "dict"
                       THEN load_aliases(@, f.player_aliases.items) ELSE @],
                TRUE, None, FALSE)

\* Config.load_config
load_config(C) ==
    IF pkg = "music_rpc" THEN music_load_config(C) ELSE deezer_load_config(C)

(***************************************************************************)
(* SongInfo._ensure_unicode on text, a text being the sequence of its      *)
(* characters.                                                             *)
(***************************************************************************)
\* [0-9a-fA-F]
IsHex(c) ==
    c \in {"0", "1", "2", "3", "4", "5", "6", "7", "8", "9",
           "a", "b", "c", "d", "e", "f", "A", "B", "C", "D", "E", "F"}

\* chr(int(hex_val, 16)) on the code points that occur: the backslash, the
\* letter A, the combining caron; any other code point is some other
\* character
Chr(hex_val) ==
    CASE hex_val \in {<<"0", "0", "5", "C">>,
                      <<"0", "0", "0", "0", "0", "0", "5", "C">>} -> "\\"
      [] hex_val \in {<<"0", "0", "4", "1">>,
                      <<"0", "0", "0", "0", "0", "0", "4", "1">>} -> "A"
      [] hex_val \in {<<"0", "3", "0", "C">>,
                      <<"0", "0", "0", "0", "0", "3", "0", "C">>} -> "caron"
      [] OTHER -> "other"

\* '\\u' in text
Contains(text, a, b) == \E i \in 1..(Len(text) - 1) : text[i] = a /\ text[i + 1] = b

\* re.sub(r'\\u([0-9a-fA-F]{n})', replace_unicode, text): the matches are
\* found from left to right in the text as it was; what a replacement puts
\* in is not scanned again
RECURSIVE re_sub(_, _, _)
re_sub(text, marker, n) ==
    IF text = <<>> THEN <<>>
    ELSE IF /\ Len(text) >= n + 2
            /\ text[1] = "\\"
            /\ text[2] = marker
            /\ \A k \in 3..(n + 2) : IsHex(text[k])
    THEN <<Chr(SubSeq(text, 3, n + 2))>> \o re_sub(SubSeq(text, n + 3, Len(text)), marker, n)
    ELSE <<text[1]>> \o re_sub(Tail(text), marker, n)

\* unicodedata.normalize('NFC', text): a C followed by the combining caron
\* becomes the one character C-with-caron
RECURSIVE normalize_NFC(_)
normalize_NFC(text) ==
    IF text = <<>> THEN <<>>
    ELSE IF Len(text) >= 2 /\ text[1] = "C" /\ text[2] = "caron"
    THEN <<"Ccaron">> \o normalize_NFC(SubSeq(text, 3, Len(text)))
    ELSE <<text[1]>> \o normalize_NFC(Tail(text))

decode_short(text) == IF Contains(text, "\\", "u") THEN re_sub(text, "u", 4) ELSE text

decode_long(text) == IF Contains(text, "\\", "U") THEN re_sub(text, "U", 8) ELSE text

\* SongInfo._ensure_unicode on a str
ensure_unicode(text) == normalize_NFC(decode_long(decode_short(text)))

(***************************************************************************)
(* SongInfo                                                                *)
(***************************************************************************)
\* SongInfo.is_playing
is_playing(song_info) == song_info.title # NotPlayingTitle /\ song_info.playing

\* SongInfo.__init__: a missing title becomes the sentinel, a missing artist
\* "Unknown Artist" (the text fields are normalised, which leaves the titles
\* and names used here as they are)
SongInfo(title, artist, album_cover, duration, elapsed, playing, player) ==
    [title |-> IF Truthy(title) THEN title ELSE NotPlayingTitle,
     artist |-> IF Truthy(artist) THEN artist ELSE "Unknown Artist",
     album_cover |-> album_cover, artist_image |-> None, song_link |-> None,
     duration |-> duration, elapsed |-> elapsed,
     playing |-> playing, player |-> player]

(***************************************************************************)
(* Now-playing probe.  A sample is what one run of the now-playing tool    *)
(* gives: nothing (ok FALSE: tool failed, empty output) or the fields.     *)
(***************************************************************************)
NoSample == [ok |-> FALSE, title |-> "", artist |-> "", playing |-> FALSE,
             player |-> None, elapsed |-> 0, duration |-> 0, numeric |-> TRUE]

SamplesOf(titles, players, maxElapsed, durations) ==
    {NoSample} \cup
    [ok : {TRUE}, title : titles, artist : Artists, playing : BOOLEAN,
     player : players, elapsed : 0..maxElapsed, duration : durations,
     numeric : {TRUE}]

\* the same samples with duration and elapsed text that is not a number
\* (deezer_rpc keeps the tool's text; music_rpc reads only digits and takes
\* anything else as absent)
MalformedOf(samples) ==
    {[np EXCEPT !.numeric = FALSE, !.elapsed = 0, !.duration = 0] : np \in {x \in samples : x.ok}}

\* music_rpc get_now_playing / check_now_playing: always a SongInfo
music_get_now_playing(np) ==
    IF ~np.ok \/ ~Truthy(np.title)
    THEN SongInfo(None, None, None, 0, 0, FALSE, None)
    ELSE SongInfo(np.title, np.artist, None, np.duration, np.elapsed, np.playing, np.player)

(***************************************************************************)
(* Catalog search, as the Aggregator sees it: nothing usable, or a first   *)
(* hit with the catalog's title and a cover that is the verified URL or    *)
(* the default asset.                                                      *)
(***************************************************************************)
CatalogTitle(title) == title \o " (Remastered)"

NoResult == [found |-> FALSE, renamed |-> FALSE, art |-> FALSE, pic |-> FALSE]

\* found: the catalog has a first hit; renamed: its title differs from the
\* one asked for; art: its cover URL answered the reachability check with
\* 200; pic: its artist picture URL did
AllOutcomes ==
    {NoResult} \cup [found : {TRUE}, renamed : BOOLEAN, art : BOOLEAN, pic : BOOLEAN]

SearchOutcomes == {sr \in AllOutcomes : sr.pic = sr.art}

\* the song_details the search cascade leaves for (title, artist); the
\* catalog's artist name is taken to agree with the probe's
song_details_unverified(song_title, sr) ==
    [title |-> IF sr.found /\ sr.renamed THEN CatalogTitle(song_title) ELSE song_title,
     album_cover |-> IF sr.found THEN ArtUrl ELSE DefaultCover,
     artist_image |-> IF sr.found /\ sr.pic THEN PicUrl ELSE DefaultIcon,
     song_link |-> IF sr.found THEN LinkUrl ELSE None]

song_details(song_title, sr) ==
    [title |-> IF sr.found /\ sr.renamed THEN CatalogTitle(song_title) ELSE song_title,
     album_cover |-> IF sr.found /\ sr.art THEN ArtUrl ELSE DefaultCover,
     artist_image |-> IF sr.found /\ sr.pic THEN PicUrl ELSE DefaultIcon,
     song_link |-> IF sr.found THEN LinkUrl ELSE None]

(***************************************************************************)
(* The search cascade of get_song_via_api.  A stage gives nothing ("none": *)
(* no hit, a network error, malformed JSON), a hit whose cover URL did not *)
(* answer 200 ("noart"), or a hit with a verified cover ("art").           *)
(***************************************************************************)
\* the queries the code knows how to make: 1 to 3 are those of
\* get_song_via_api; 4 to 8 are strategies 1, 0, 2, 3 and 4 of
\* _search_deezer_alternative
StageNames == <<"primary", "title_only", "stripped", "alias", "artist_id",
                "simplified", "first_word_alias", "full_stripped">>

Stages == 1..Len(StageNames)

StageOutcomes == {"none", "noart", "art"}

\* the stages of _search_deezer_alternative, which give a hit only when its
\* cover is verified
AltStages == {k \in Stages : k > 3}

\* what the catalog would answer to each query; at most one query has art
StageResults ==
    {out \in [Stages -> StageOutcomes] :
        /\ Cardinality({k \in Stages : out[k] = "art"}) <= 1
        /\ \A k \in AltStages : out[k] # "noart"}

\* the first stage whose query has art, 0 when none has
FirstArt(out) ==
    IF \E k \in Stages : out[k] = "art" THEN CHOOSE k \in Stages : out[k] = "art" ELSE 0

\* a title with Czech letters, written in ASCII (accent after the letter)
CzechTitle == "Pi'sen^"

\* _contains_czech_chars
contains_czech_chars(text) == text = CzechTitle

HasArt(r) == r = "art"

\* the stages get_song_via_api attempts, in order, and the stage whose
\* song_details it keeps (0: none, the fallback dict is built).
\* _search_deezer_alternative is called from nowhere.
search_cascade(song_title, artist_name, out) ==
    LET has_czech == contains_czech_chars(song_title) \/ contains_czech_chars(artist_name)
        try2 == ~HasArt(out[1])
        use2 == try2 /\ HasArt(out[2])
        try3 == has_czech /\ ~HasArt(out[1]) /\ ~use2
        use3 == try3 /\ HasArt(out[3])
    IN  [attempted |-> <<1>> \o (IF try2 THEN <<2>> ELSE <<>>)
                           \o (IF try3 THEN <<3>> ELSE <<>>),
         source |-> IF use3 THEN 3 ELSE IF use2 THEN 2
                    ELSE IF out[1] # "none" THEN 1 ELSE 0]

\* _get_known_artist_ids: the catalog ids of the artists the code lists
get_known_artist_ids(artist_name) ==
    IF artist_name = "Calin" THEN {14858449} ELSE {}

\* _search_deezer_alternative: the stages it attempts, in order, and the
\* stage whose result it returns (0: None).  The alias list always holds
\* the artist name itself; the titles used here have a word of more than
\* two letters, so the simplified and first-word queries are made.
search_deezer_alternative(artist_name, song_title, out) ==
    LET try5 == get_known_artist_ids(artist_name) # {}
        hit5 == try5 /\ HasArt(out[5])
        hit4 == ~hit5 /\ HasArt(out[4])
        try6 == ~hit5 /\ ~hit4
        hit6 == try6 /\ HasArt(out[6])
        try7 == try6 /\ ~hit6
        hit7 == try7 /\ HasArt(out[7])
        try8 == try7 /\ ~hit7
        hit8 == try8 /\ HasArt(out[8])
    IN  [attempted |-> (IF try5 THEN <<5>> ELSE <<>>) \o (IF ~hit5 THEN <<4>> ELSE <<>>)
                       \o (IF try6 THEN <<6>> ELSE <<>>) \o (IF try7 THEN <<7>> ELSE <<>>)
                       \o (IF try8 THEN <<8>> ELSE <<>>),
         source |-> IF hit5 THEN 5 ELSE IF hit4 THEN 4 ELSE IF hit6 THEN 6
                    ELSE IF hit7 THEN 7 ELSE IF hit8 THEN 8 ELSE 0]

\* the outcome of the cascade as get_song_via_api sees it
cascade_result_unchecked(c, out, renamed, pic) ==
    IF c.source = 0 THEN NoResult
    ELSE [found |-> TRUE, renamed |-> renamed, art |-> TRUE, pic |-> pic]

cascade_result(c, out, renamed, pic) ==
    IF c.source = 0 THEN NoResult
    ELSE [found |-> TRUE, renamed |-> renamed, art |-> HasArt(out[c.source]), pic |-> pic]

(***************************************************************************)
(* SongInfoRetriever.  A is the retriever's fields and the search counter. *)
(***************************************************************************)
InnerKey(title, artist) == title \o "::" \o artist

\* f"{player}" prints a missing player as None
OuterKey(title, artist, player) ==
    title \o "|" \o artist \o "|" \o (IF player = None THEN "None" ELSE player)

Bump(A, title, artist) ==
    [A EXCEPT !.searches = [k \in DOMAIN @ \cup {<<title, artist>>} |->
        IF k = <<title, artist>>
        THEN (IF k \in DOMAIN @ THEN @[k] ELSE 0) + 1
        ELSE @[k]]]

\* a cache whose writes are lost
Store_dropped(A, key, ref) == A

\* a cache that holds one track only
Store_evicting(A, key, ref) ==
    [A EXCEPT !.song_cache = [k \in {key} |-> ref]]

Store(A, key, ref) ==
    [A EXCEPT !.song_cache = [k \in DOMAIN @ \cup {key} |-> IF k = key THEN ref ELSE @[k]]]

\* get_song_via_api of music_rpc; np2 is the probe read again during the search
music_get_song_via_api(A, song_title, artist_name, player_name, sr, np2) ==
    LET cache_key == InnerKey(song_title, artist_name)
    IN  IF cache_key \in DOMAIN A.song_cache
        THEN LET ref == A.song_cache[cache_key]
             IN  [A |-> IF Truthy(player_name) /\ ~Truthy(A.heap[ref].player)
                        THEN [A EXCEPT !.heap[ref].player = player_name]
                        ELSE A,
                  ref |-> ref]
        ELSE
          LET now == music_get_now_playing(np2)
              d == song_details(song_title, sr)
              song_info == [SongInfo(d.title, artist_name, d.album_cover,
                                     now.duration, now.elapsed, TRUE,
                                     IF Truthy(player_name) THEN player_name ELSE now.player)
                            EXCEPT !.artist_image = d.artist_image,
                                   !.song_link = d.song_link]
              A1 == Bump(A, song_title, artist_name)
              A2 == [A1 EXCEPT !.heap = Append(@, song_info)]
          IN  [A |-> Store(A2, cache_key, Len(A2.heap)), ref |-> Len(A2.heap)]

\* get_current_song_info of music_rpc.  The result is a cached object (ref > 0,
\* val its fields on return) or a fresh SongInfo that is not in the cache (ref = 0)
music_get_current_song_info(A, np, sr, np2) ==
    LET song_info == music_get_now_playing(np)
    IN  IF ~is_playing(song_info)
        THEN [A |-> A, ref |-> 0, val |-> song_info, raised |-> FALSE]
        ELSE
          LET cache_key == OuterKey(song_info.title, song_info.artist, song_info.player)
          IN  IF cache_key \in DOMAIN A.song_cache
              THEN LET ref == A.song_cache[cache_key]
                       A1 == [A EXCEPT !.heap[ref].elapsed = song_info.elapsed,
                                       !.heap[ref].playing = song_info.playing,
                                       !.last_song_key = cache_key]
                   IN  [A |-> A1, ref |-> ref, val |-> A1.heap[ref], raised |-> FALSE]
              ELSE LET e == music_get_song_via_api(A, song_info.title, song_info.artist,
                                                   song_info.player, sr, np2)
                       A1 == [e.A EXCEPT
                                !.heap[e.ref].player = song_info.player,
                                !.heap[e.ref].playing = song_info.playing,
                                !.heap[e.ref].elapsed = song_info.elapsed,
                                !.heap[e.ref].duration =
                                    IF song_info.duration # 0 THEN song_info.duration ELSE @,
                                !.last_song_key = cache_key]
                       A2 == Store(A1, cache_key, e.ref)
                   IN  [A |-> A2, ref |-> e.ref, val |-> A2.heap[e.ref], raised |-> FALSE]

\* get_song_via_api of deezer_rpc: the same, with the probe's dict read again.
\* float() of duration or elapsed text that is not a number raises in every
\* search stage that found something and in the fallback: the handlers leave
\* a basic SongInfo that is returned without being cached (ref = 0)
deezer_get_song_via_api(A, song_title, artist_name, player_name, sr, np2) ==
    LET cache_key == InnerKey(song_title, artist_name)
    IN  IF cache_key \in DOMAIN A.song_cache
        THEN LET ref == A.song_cache[cache_key]
                 A1 == IF Truthy(player_name) /\ ~Truthy(A.heap[ref].player)
                       THEN [A EXCEPT !.heap[ref].player = player_name]
                       ELSE A
             IN  [A |-> A1, ref |-> ref, val |-> A1.heap[ref]]
        ELSE IF np2.ok /\ ~np2.numeric
        THEN [A |-> Bump(A, song_title, artist_name), ref |-> 0,
              val |-> SongInfo(song_title, artist_name, None, 0, 0, TRUE, player_name)]
        ELSE
          LET d == song_details(song_title, sr)
              song_info == [SongInfo(d.title, artist_name, d.album_cover,
                                     IF np2.ok THEN np2.duration ELSE 0,
                                     IF np2.ok THEN np2.elapsed ELSE 0, TRUE,
                                     IF Truthy(player_name) THEN player_name
                                     ELSE IF np2.ok THEN np2.player ELSE None)
                            EXCEPT !.artist_image = d.artist_image,
                                   !.song_link = d.song_link]
              A1 == Bump(A, song_title, artist_name)
              A2 == [A1 EXCEPT !.heap = Append(@, song_info)]
              A3 == Store(A2, cache_key, Len(A2.heap))
          IN  [A |-> A3, ref |-> Len(A2.heap), val |-> song_info]

\* window titles the window manager can hand to deezer_rpc
WindowTitles == {None, "Song A - Artist X", "Deezer"}

\* the window-title fallback of deezer_rpc get_current_song_info: the player
\* is the first known app named in the title; "Title - Artist" is split at
\* the first " - "; any other title is the song title itself
ParseWindowTitle(window_title) ==
    IF window_title = "Song A - Artist X"
    THEN [player |-> None, split |-> TRUE, title |-> "Song A", artist |-> "Artist X"]
    ELSE [player |-> "Deezer", split |-> FALSE, title |-> window_title,
          artist |-> "Unknown Artist"]

\* get_current_song_info of deezer_rpc; raised: the call ends in an exception
\* (float() of elapsed text that is not a number, before any field is written)
deezer_get_current_song_info(A, np, window_title, sr, np2) ==
    IF np.ok /\ Truthy(np.title) /\ np.title # "Unknown"
    THEN
      LET cache_key == InnerKey(np.title, np.artist)
      IN  IF cache_key = A.last_song_key /\ cache_key \in DOMAIN A.song_cache
          THEN IF ~np.numeric
               THEN [A |-> A, ref |-> 0, val |-> SongInfo(None, None, None, 0, 0, FALSE, None),
                     raised |-> TRUE]
               ELSE
                 LET ref == A.song_cache[cache_key]
                     A1 == [A EXCEPT !.heap[ref].elapsed = np.elapsed,
                                     !.heap[ref].playing = np.playing,
                                     !.heap[ref].player =
                                         IF Truthy(np.player) /\ ~Truthy(@) THEN np.player ELSE @]
                 IN  [A |-> A1, ref |-> ref, val |-> A1.heap[ref], raised |-> FALSE]
          ELSE LET e == deezer_get_song_via_api([A EXCEPT !.last_song_key = cache_key],
                                                np.title, np.artist, np.player, sr, np2)
               IN  [A |-> e.A, ref |-> e.ref, val |-> e.val, raised |-> FALSE]
    ELSE IF Truthy(window_title)
    THEN
      LET w == ParseWindowTitle(window_title)
      IN  IF w.split
          THEN LET e == deezer_get_song_via_api(A, w.title, w.artist, w.player, sr, np2)
               IN  [A |-> e.A, ref |-> e.ref, val |-> e.val, raised |-> FALSE]
          ELSE [A |-> A, ref |-> 0, raised |-> FALSE,
                val |-> SongInfo(w.title, "Unknown Artist", None, 0, 0, FALSE, w.player)]
    ELSE [A |-> A, ref |-> 0, raised |-> FALSE,
          val |-> SongInfo(NotPlayingTitle, "Open a music player and play a song",
                           None, 0, 0, FALSE, None)]

get_current_song_info(A, np, window_title, sr, np2) ==
    IF pkg = "music_rpc" THEN music_get_current_song_info(A, np, sr, np2)
    ELSE deezer_get_current_song_info(A, np, window_title, sr, np2)

(***************************************************************************)
(* DiscordPresenceManager.  An operation is a function of the manager's    *)
(* fields P (with the protocol calls made so far in P.calls) and of the    *)
(* outcome o the remote side gives to each protocol call; the result is    *)
(* the new fields and the returned value.                                  *)
(***************************************************************************)
\* outcomes of the protocol calls one operation can make
\* (only deezer_rpc makes a second update call)
Outcomes == [conn_ok : BOOLEAN, close_ok : BOOLEAN, clear_ok : BOOLEAN,
             upd_ok : BOOLEAN,
             retry_ok : IF pkg = "deezer_rpc" THEN BOOLEAN ELSE {TRUE}]

\* one protocol call, recorded with the manager's state at the moment of the call
Call(P, name, ok, arg) ==
    [call |-> name, ok |-> ok, connected |-> P.connected,
     hasrpc |-> P.rpc # None, cur |-> P.current_client_id, arg |-> arg]

Rec(P, name, ok, arg) == [P EXCEPT !.calls = Append(@, Call(P, name, ok, arg))]

Reset(P) == [P EXCEPT !.connected = FALSE, !.current_client_id = None, !.rpc = None]

\* music_rpc DiscordPresenceManager.disconnect
music_disconnect(P, o) ==
    IF ~P.connected THEN [P |-> P, ret |-> TRUE]
    ELSE
      LET P1 == IF P.rpc # None THEN Rec(P, "clear", o.clear_ok, "") ELSE P
          P2 == IF P.rpc # None THEN Rec(P1, "close", o.close_ok, "") ELSE P1
      IN  [P |-> [Reset(P2) EXCEPT !.last_title = None],
           ret |-> (P.rpc = None \/ o.close_ok)]

\* deezer_rpc DiscordPresenceManager.disconnect
\* (it returns nothing: ret is the falsy value a caller would see)
deezer_disconnect(P, o) ==
    IF ~P.connected /\ P.rpc = None THEN [P |-> P, ret |-> FALSE]
    ELSE
      LET P1 == IF P.rpc # None THEN Rec(P, "close", o.close_ok, "") ELSE P
      IN  [P |-> Reset(P1), ret |-> FALSE]

disconnect(P, o) ==
    IF pkg = "music_rpc" THEN music_disconnect(P, o) ELSE deezer_disconnect(P, o)

\* connect() without the test for an open connection of the same identifier
connect_always(P, player_name_arg, o) ==
    LET player_name == IF ~Truthy(player_name_arg) THEN "Music" ELSE player_name_arg
        client_id == get_client_id(player_name)
    IN  IF client_id = None
        THEN [P |-> IF P.connected THEN disconnect(P, o).P ELSE P, ret |-> FALSE]
        ELSE
          LET P1 == IF P.connected THEN disconnect(P, o).P ELSE P
              P2 == [P1 EXCEPT !.rpc = None, !.connected = FALSE]
              P3 == Rec(P2, "connect", o.conn_ok, client_id)
          IN  IF o.conn_ok
              THEN [P |-> [P3 EXCEPT !.rpc = client_id, !.connected = TRUE,
                                     !.current_client_id = client_id],
                    ret |-> TRUE]
              ELSE [P |-> Reset(P3), ret |-> FALSE]

\* DiscordPresenceManager.connect (the same code in both packages)
connect(P, player_name_arg, o) ==
    LET player_name == IF ~Truthy(player_name_arg) THEN "Music" ELSE player_name_arg
        client_id == get_client_id(player_name)
    IN  IF client_id = None
        THEN [P |-> IF P.connected THEN disconnect(P, o).P ELSE P, ret |-> FALSE]
        ELSE IF P.connected /\ P.current_client_id = client_id
        THEN [P |-> P, ret |-> TRUE]
        ELSE
          LET P1 == IF P.connected THEN disconnect(P, o).P ELSE P
              P2 == [P1 EXCEPT !.rpc = None, !.connected = FALSE]
              P3 == Rec(P2, "connect", o.conn_ok, client_id)
          IN  IF o.conn_ok
              THEN [P |-> [P3 EXCEPT !.rpc = client_id, !.connected = TRUE,
                                     !.current_client_id = client_id],
                    ret |-> TRUE]
              ELSE [P |-> Reset(P3), ret |-> FALSE]

\* large_image chosen by music_rpc update(): the album art when there is one
music_large_image(song_info) ==
    IF Truthy(song_info.album_cover) THEN song_info.album_cover ELSE DefaultIcon

\* music_rpc update(), from the not-playing test on
music_publish(P, song_info, o) ==
    IF ~is_playing(song_info)
    THEN LET P1 == IF P.rpc # None THEN Rec(P, "clear", o.clear_ok, "") ELSE P
         IN  IF P.rpc # None /\ ~o.clear_ok
             THEN [P |-> P1, ret |-> FALSE]
             ELSE [P |-> [P1 EXCEPT !.last_title = None], ret |-> TRUE]
    ELSE IF song_info.title = P.last_title
    THEN [P |-> P, ret |-> TRUE]
    ELSE
      LET P1 == [P EXCEPT !.last_title = song_info.title]
      IN  IF P1.rpc = None THEN [P |-> P1, ret |-> FALSE]
          ELSE LET P2 == Rec(P1, "update", o.upd_ok, music_large_image(song_info))
               IN  IF o.upd_ok THEN [P |-> P2, ret |-> TRUE]
                   ELSE [P |-> [P2 EXCEPT !.connected = FALSE], ret |-> FALSE]

\* large_image chosen by deezer_rpc update(): an http(s) album cover, else the default
deezer_large_image(song_info) ==
    IF Truthy(song_info.album_cover) /\ song_info.album_cover # DefaultCover
       /\ song_info.album_cover = ArtUrl
    THEN song_info.album_cover ELSE DefaultCover

\* deezer_rpc update(), from the not-playing test on
deezer_publish(P, song_info, o) ==
    IF ~is_playing(song_info)
    THEN IF P.rpc = None THEN [P |-> P, ret |-> FALSE]
         ELSE LET P1 == Rec(P, "clear", o.clear_ok, "")
              IN  IF ~o.clear_ok
                  THEN [P |-> P1, ret |-> FALSE]
                  ELSE [P |-> [P1 EXCEPT !.last_title = None], ret |-> TRUE]
    ELSE IF P.last_title = song_info.title
    THEN [P |-> P, ret |-> TRUE]
    ELSE IF P.rpc = None THEN [P |-> P, ret |-> FALSE]
    ELSE
      LET P1 == Rec(P, "update", o.upd_ok, deezer_large_image(song_info))
          P2 == Rec(P1, "update", o.retry_ok, DefaultCover)
      IN  IF o.upd_ok
          THEN [P |-> [P1 EXCEPT !.last_title = song_info.title], ret |-> TRUE]
          ELSE IF o.retry_ok
          THEN [P |-> [P2 EXCEPT !.last_title = song_info.title], ret |-> TRUE]
          ELSE [P |-> P2, ret |-> FALSE]

\* update() that has forgotten the title it published last
publish_forgetful(P, song_info, o) ==
    IF pkg = "music_rpc" THEN music_publish([P EXCEPT !.last_title = None], song_info, o)
    ELSE deezer_publish([P EXCEPT !.last_title = None], song_info, o)

publish(P, song_info, o) ==
    IF pkg = "music_rpc" THEN music_publish(P, song_info, o)
    ELSE deezer_publish(P, song_info, o)

\* update() without its connect-if-needed step: it goes on to the protocol
\* calls whatever the value of connected
update_without_connect(P, song_info, o) ==
    IF Truthy(song_info.player) /\ get_client_id(song_info.player) = None
    THEN [P |-> P, ret |-> FALSE]
    ELSE publish(P, song_info, o)

\* DiscordPresenceManager.update: the client-id switch, the disabled-player
\* test and the connect-if-needed step are the same code in both packages
update(P, song_info, o) ==
    LET switch == Truthy(song_info.player) /\ P.connected
                  /\ get_client_id(song_info.player) # P.current_client_id
        c1 == connect(disconnect(P, o).P, song_info.player, o)
        Pa == IF switch THEN c1.P ELSE P
    IN  IF switch /\ ~c1.ret THEN [P |-> Pa, ret |-> FALSE]
        ELSE IF Truthy(song_info.player) /\ get_client_id(song_info.player) = None
        THEN [P |-> Pa, ret |-> FALSE]
        ELSE
          LET c2 == connect(Pa, song_info.player, o)
              Pb == IF ~Pa.connected THEN c2.P ELSE Pa
          IN  IF ~Pa.connected /\ ~c2.ret THEN [P |-> Pb, ret |-> FALSE]
              ELSE publish(Pb, song_info, o)

(***************************************************************************)
(* State, and what is recorded of the last operations                      *)
(***************************************************************************)
\* the manager's fields as one value, with an empty list of protocol calls
Pub == [rpc |-> rpc, connected |-> connected, last_title |-> last_title,
        current_client_id |-> current_client_id, calls |-> <<>>]

\* the retriever's fields as one value
Agg == [song_cache |-> song_cache, heap |-> heap, last_song_key |-> last_song_key,
        searches |-> searches]

AllOk == [conn_ok |-> TRUE, close_ok |-> TRUE, clear_ok |-> TRUE,
          upd_ok |-> TRUE, retry_ok |-> TRUE]

\* the outcomes that matter to an operation: when every call succeeds the
\* operation makes every kind of call it can make (a failure only cuts it
\* short, or brings the second update call of deezer_rpc), so the outcome
\* of a kind of call that this run does not make is left at success
OutcomesFor(calls) ==
    LET made == {calls[i].call : i \in 1..Len(calls)}
    IN  {o \in Outcomes :
            /\ "connect" \notin made => o.conn_ok
            /\ "close" \notin made => o.close_ok
            /\ "clear" \notin made => o.clear_ok
            /\ "update" \notin made => (o.upd_ok /\ o.retry_ok)
            /\ o.upd_ok => o.retry_ok}

NoOp == [op |-> "none", title |-> None, player |-> None, playing |-> FALSE,
         ret |-> FALSE, calls |-> <<>>]

\* what is remembered of the operation before the last one
Summary(op) == [op |-> op.op, title |-> op.title, player |-> op.player,
                playing |-> op.playing, ret |-> op.ret,
                nupdate |-> Cardinality({i \in 1..Len(op.calls) : op.calls[i].call = "update"}),
                nfailed |-> Cardinality({i \in 1..Len(op.calls) :
                                op.calls[i].call = "update" /\ ~op.calls[i].ok})]

\* rcover, rimage, stages, source, first_art and pic are written by the ticks
\* that give the catalog's answers stage by stage; player, elapsed and duration by the
\* ticks whose samples vary in them
NoTick == [ok |-> FALSE, title |-> "", playing |-> FALSE, ref |-> 0,
           player |-> None, elapsed |-> 0, duration |-> 0,
           raised |-> FALSE, rtitle |-> None, rplaying |-> FALSE,
           rcover |-> None, rimage |-> None,
           stages |-> <<>>, source |-> 0, first_art |-> 0, pic |-> FALSE]

SetPub(P) ==
    /\ rpc' = P.rpc
    /\ connected' = P.connected
    /\ last_title' = P.last_title
    /\ current_client_id' = P.current_client_id

SetAgg(A) ==
    /\ song_cache' = A.song_cache
    /\ heap' = A.heap
    /\ last_song_key' = A.last_song_key
    /\ searches' = A.searches

Log(name, song_info, r) ==
    lastOp' = [op |-> name, title |-> song_info.title, player |-> song_info.player,
               playing |-> song_info.playing, ret |-> r.ret, calls |-> r.P.calls]

NoCfgOp == [op |-> "__init__", ok |-> TRUE, raised |-> None, saved |-> FALSE]

ConfigInit ==
    /\ discord_client_ids = DEFAULT_DISCORD_CLIENT_IDS
    /\ player_aliases = DEFAULT_PLAYER_ALIASES
    /\ DISABLED_PLAYERS \in {DEFAULT_DISABLED_PLAYERS, {}}
    /\ update_interval = PyInt(DEFAULT_UPDATE_INTERVAL)
    /\ config_file = PlainFile("absent")
    /\ lastCfg = NoCfgOp

PubInit ==
    /\ rpc = None
    /\ connected = FALSE
    /\ last_title = None
    /\ current_client_id = None
    /\ lastOp = NoOp
    /\ prevOp = Summary(NoOp)

AggInit ==
    /\ song_cache = <<>>
    /\ heap = <<>>
    /\ last_song_key = None
    /\ searches = <<>>
    /\ lastTick = NoTick

AppInit ==
    /\ running = FALSE
    /\ pc = "idle"
    /\ discord_enabled = TRUE
    /\ last_player = None
    /\ currently_disabled = FALSE
    /\ was_playing = FALSE

ToolInit ==
    /\ nowplaying_cli = "installed"
    /\ spawns = 0
    /\ reports = 0

\* MusicRPCTrayApp.__init__: the menu built on the main thread, the 10s
\* option checked, an empty queue
UiInit ==
    /\ update_queue = <<>>
    /\ menu = [now_playing |-> None, discord_status |-> FALSE,
               checked |-> DEFAULT_UPDATE_INTERVAL]
    /\ menu_writer = [thread |-> "ui", handler |-> "__init__"]
    /\ ui_pc = "idle"

\* ---- the external calls of one polling iteration ----
Unbounded == [bounded |-> FALSE, tenths |-> 0]

Bounded(tenths) == [bounded |-> TRUE, tenths |-> tenths]

\* the calls in the order the iteration makes them, with the timeout
\* argument each is given (in tenths of a second)
ExternalCalls ==
    IF pkg = "music_rpc"
    THEN << [name |-> "nowplaying-cli get", timeout |-> Unbounded, optional |-> FALSE],
            [name |-> "nowplaying-cli get-raw", timeout |-> Unbounded, optional |-> TRUE],
            [name |-> "pgrep", timeout |-> Bounded(5), optional |-> TRUE],
            [name |-> "requests.get", timeout |-> Bounded(50), optional |-> TRUE],
            [name |-> "requests.head", timeout |-> Bounded(30), optional |-> TRUE] >>
    ELSE << [name |-> "nowplaying-cli get-raw", timeout |-> Unbounded, optional |-> FALSE],
            [name |-> "pgrep", timeout |-> Bounded(5), optional |-> TRUE],
            [name |-> "requests.get", timeout |-> Bounded(50), optional |-> TRUE],
            [name |-> "requests.head", timeout |-> Bounded(30), optional |-> TRUE] >>

\* the position after the last call: time.sleep(update_interval)
Sleeping == Len(ExternalCalls) + 1

AfterCall(i) == i + 1

HangInit ==
    /\ tick_pc = Sleeping
    /\ call_state = "idle"
    /\ tick_log = <<>>

TextInit ==
    /\ raw_text = <<>>
    /\ norm_text = <<>>
    /\ passes = 0

NoProbeInfo ==
    [client_name |-> None, bundle |-> None, content |-> None,
     artist |-> "", running |-> {}, source |-> ""]

IdentInit ==
    /\ probe_info = NoProbeInfo
    /\ identified = [player |-> None, steps |-> <<>>]

NoText == [title |-> 0, artist |-> 0, album |-> 0, player |-> 0, art |-> FALSE]

PayloadInit ==
    /\ track_text = NoText
    /\ update_data = <<>>

PeerInit ==
    /\ shown = None

RaceInit ==
    /\ inflight = SongInfo(None, None, None, 0, 0, FALSE, None)

TestInit ==
    /\ tested = [made |-> FALSE, player |-> None, is_disabled |-> FALSE, client_id |-> None]

ShareInit ==
    /\ handed = <<>>
    /\ rendered = [made |-> FALSE, now |-> <<>>, queued |-> <<>>]

OtherInit ==
    /\ IdentInit
    /\ PayloadInit
    /\ PeerInit
    /\ RaceInit
    /\ TestInit
    /\ ShareInit

EnvInit ==
    /\ ToolInit
    /\ UiInit
    /\ HangInit
    /\ TextInit
    /\ OtherInit

Init ==
    /\ pkg \in Packages
    /\ EnvInit
    /\ ConfigInit
    /\ PubInit
    /\ AggInit
    /\ AppInit

(***************************************************************************)
(* Spec: the Publisher driven directly: any operation, any track, any      *)
(* outcome of the protocol calls.                                          *)
(***************************************************************************)
PubPlayers == {"Deezer", "Tidal", "Music", None}

\* tracks handed to update(): a playing track carries catalog art or the
\* default; for a paused track or the sentinel the art plays no part
PubSongs ==
    [title : Titles, player : PubPlayers, playing : {TRUE},
     album_cover : {DefaultCover, ArtUrl}]
    \cup [title : Titles \cup {NotPlayingTitle}, player : PubPlayers,
          playing : {FALSE}, album_cover : {DefaultCover}]

NoSong(player) == [title |-> None, player |-> player, playing |-> FALSE, album_cover |-> None]

\* discord_manager.connect(player_name)
Connect ==
    \E player \in PubPlayers :
      \E o \in OutcomesFor(connect(Pub, player, AllOk).P.calls) :
        \E r \in {connect(Pub, player, o)} :
          SetPub(r.P) /\ Log("connect", NoSong(player), r)

\* discord_manager.update(song_info)
Update ==
    \E song_info \in PubSongs :
      \E o \in OutcomesFor(update(Pub, song_info, AllOk).P.calls) :
        \E r \in {update(Pub, song_info, o)} :
          SetPub(r.P) /\ Log("update", song_info, r)

\* discord_manager.disconnect()
Disconnect ==
    \E o \in OutcomesFor(disconnect(Pub, AllOk).P.calls) :
        \E r \in {disconnect(Pub, o)} :
          SetPub(r.P) /\ Log("disconnect", NoSong(None), r)

vars == <<pkg, envVars, cfgVars, pubVars, aggVars, opVars, tickVars, appVars>>

Next ==
    \/ Connect /\ UNCHANGED <<pkg, envVars, cfgVars, aggVars, tickVars, prevOp, appVars>>
    \/ Update /\ UNCHANGED <<pkg, envVars, cfgVars, aggVars, tickVars, prevOp, appVars>>
    \/ Disconnect /\ UNCHANGED <<pkg, envVars, cfgVars, aggVars, tickVars, prevOp, appVars>>

Spec == Init /\ [][Next]_vars

(***************************************************************************)
(* SpecPair: the same operations, remembering the operation before the     *)
(* last one when both are update() calls of a playing track of one title.  *)
(***************************************************************************)
Remember ==
    prevOp' = IF /\ lastOp.op = "update" /\ lastOp.playing
                 /\ lastOp'.op = "update" /\ lastOp'.playing
                 /\ lastOp'.title = lastOp.title
              THEN Summary(lastOp)
              ELSE Summary(NoOp)

NextPair ==
    \/ Connect /\ Remember /\ UNCHANGED <<pkg, envVars, cfgVars, aggVars, tickVars, appVars>>
    \/ Update /\ Remember /\ UNCHANGED <<pkg, envVars, cfgVars, aggVars, tickVars, appVars>>
    \/ Disconnect /\ Remember /\ UNCHANGED <<pkg, envVars, cfgVars, aggVars, tickVars, appVars>>

SpecPair == Init /\ [][NextPair]_vars

(***************************************************************************)
(* SpecAgg: the Aggregator alone: any sequence of get_current_song_info()  *)
(* ticks over two tracks, two players, pauses and probe failures.          *)
(***************************************************************************)
AggPlayers == {"Deezer", None}

AggSamples == SamplesOf(Titles, AggPlayers, 0, {TrackDuration})

\* the inputs of one get_current_song_info() call: np is the probe's sample,
\* np2 what the probe says when it is read again during a search (the same,
\* or nothing), sr the outcome of the catalog search if one is made
TickInputs(samples, outcomes) ==
    UNION {
      UNION {
        IF get_current_song_info(Agg, np, window_title, NoResult, np).A.searches = searches
        THEN {[np |-> np, window_title |-> window_title, sr |-> NoResult, np2 |-> np]}
        ELSE [np : {np}, window_title : {window_title}, sr : outcomes,
              np2 : {np, NoSample}]
        : window_title \in IF pkg = "music_rpc" THEN {None} ELSE WindowTitles }
      : np \in samples }

TickRecord(i, g) ==
    [ok |-> i.np.ok, title |-> i.np.title, playing |-> i.np.ok /\ i.np.playing,
     player |-> None, elapsed |-> 0, duration |-> 0,
     ref |-> g.ref, raised |-> g.raised,
     rtitle |-> IF g.raised THEN None ELSE g.val.title,
     rplaying |-> ~g.raised /\ g.val.playing,
     rcover |-> None, rimage |-> None,
     stages |-> <<>>, source |-> 0, first_art |-> 0, pic |-> FALSE]

\* song_info_retriever.get_current_song_info(window_title)
GetCurrentSongInfo(samples, outcomes) ==
    \E i \in TickInputs(samples, outcomes) :
        \E g \in {get_current_song_info(Agg, i.np, i.window_title, i.sr, i.np2)} :
            /\ \A k \in DOMAIN g.A.searches : g.A.searches[k] <= MaxSearches
            /\ SetAgg(g.A)
            /\ lastTick' = TickRecord(i, g)

NextAgg ==
    GetCurrentSongInfo(AggSamples, SearchOutcomes)
        /\ UNCHANGED <<pkg, envVars, cfgVars, pubVars, opVars, appVars>>

SpecAgg == Init /\ [][NextAgg]_vars

(***************************************************************************)
(* SpecProbe: the Aggregator alone, with a probe whose duration and        *)
(* elapsed text can be something that is not a number.                     *)
(***************************************************************************)
ProbeSamples ==
    SamplesOf({"Song A"}, AggPlayers, 0, {TrackDuration})
    \cup MalformedOf(SamplesOf({"Song A"}, AggPlayers, 0, {TrackDuration}))

NextProbe ==
    GetCurrentSongInfo(ProbeSamples, SearchOutcomes)
        /\ UNCHANGED <<pkg, envVars, cfgVars, pubVars, opVars, appVars>>

SpecProbe == Init /\ [][NextProbe]_vars

(***************************************************************************)
(* SpecHit: the Aggregator alone, over one track whose elapsed time,       *)
(* duration (0: not reported) and player vary from sample to sample.       *)
(***************************************************************************)
HitSamples == SamplesOf({"Song A"}, AggPlayers, 1, {0, TrackDuration})

\* song_info_retriever.get_current_song_info(window_title), the sample's
\* player, elapsed time and duration being recorded with the tick
HitTick ==
    \E i \in TickInputs(HitSamples, SearchOutcomes) :
        \E g \in {get_current_song_info(Agg, i.np, i.window_title, i.sr, i.np2)} :
            /\ \A k \in DOMAIN g.A.searches : g.A.searches[k] <= MaxSearches
            /\ SetAgg(g.A)
            /\ lastTick' = [TickRecord(i, g) EXCEPT
                              !.player = i.np.player, !.elapsed = i.np.elapsed,
                              !.duration = i.np.duration]

NextHit ==
    HitTick /\ UNCHANGED <<pkg, envVars, cfgVars, pubVars, opVars, appVars>>

SpecHit == Init /\ [][NextHit]_vars

(***************************************************************************)
(* SpecSearch: the Aggregator with the catalog's answers given stage by    *)
(* stage.  _search_deezer_alternative, which no code calls, is applied on   *)
(* its own to a retriever that has cached nothing yet, for a track whose   *)
(* first three queries gave no art.                                        *)
(***************************************************************************)
SearchTitles == {"Song A", CzechTitle}

SearchSamples == SamplesOf(SearchTitles, {"Deezer"}, 0, {TrackDuration})

AltArtists == {"Artist X", "Calin"}

\* get_current_song_info(None), the search (if one is made) going through
\* the stages of get_song_via_api
SearchTick ==
    \E np \in SearchSamples :
      IF get_current_song_info(Agg, np, None, NoResult, np).A.searches = searches
      THEN \E i \in {[np |-> np, window_title |-> None, sr |-> NoResult, np2 |-> np]} :
             \E g \in {get_current_song_info(Agg, np, None, NoResult, np)} :
               SetAgg(g.A) /\ lastTick' = TickRecord(i, g)
      ELSE \E out \in StageResults, renamed \in BOOLEAN, pic \in BOOLEAN :
             \E c \in {search_cascade(np.title, np.artist, out)} :
               \E i \in {[np |-> np, window_title |-> None, np2 |-> np,
                          sr |-> cascade_result(c, out, renamed, pic)]} :
                 \E g \in {get_current_song_info(Agg, np, None, i.sr, np)} :
                   /\ SetAgg(g.A)
                   /\ lastTick' = [TickRecord(i, g) EXCEPT
                                     !.rcover = g.val.album_cover,
                                     !.rimage = g.val.artist_image,
                                     !.stages = c.attempted, !.source = c.source,
                                     !.first_art = FirstArt(out),
                                     !.pic = c.source # 0 /\ pic]

\* _search_deezer_alternative(artist_name, song_title): it reads the catalog
\* and writes no field of the retriever
SearchDeezerAlternative ==
    /\ DOMAIN song_cache = {}
    /\ \E artist_name \in AltArtists, song_title \in SearchTitles,
          out \in {r \in StageResults : \A k \in Stages \ AltStages : ~HasArt(r[k])} :
         \E c \in {search_deezer_alternative(artist_name, song_title, out)} :
           lastTick' = [NoTick EXCEPT
                          !.title = song_title,
                          !.stages = c.attempted, !.source = c.source,
                          !.first_art = FirstArt(out),
                          !.rcover = IF c.source = 0 THEN None ELSE ArtUrl,
                          !.rimage = IF c.source = 0 THEN None ELSE DefaultIcon,
                          !.rtitle = IF c.source = 0 THEN None ELSE song_title]
    /\ UNCHANGED <<aggVars, searches>>

NextSearch ==
    \/ SearchTick /\ UNCHANGED <<pkg, envVars, cfgVars, pubVars, opVars, appVars>>
    \/ SearchDeezerAlternative /\ UNCHANGED <<pkg, envVars, cfgVars, pubVars, opVars, appVars>>

SpecSearch == Init /\ [][NextSearch]_vars

(***************************************************************************)
(* SpecLoop: the update loop of the Publisher: each iteration asks the     *)
(* Aggregator for the current track and hands it to update().              *)
(***************************************************************************)
LoopPlayers == {"Deezer", "Music", None}

LoopSamples == SamplesOf({"Song A"}, LoopPlayers, 0, {TrackDuration})

LoopOutcomes == {sr \in SearchOutcomes : ~sr.renamed}

\* one iteration of DiscordPresenceManager.run_update_loop
RunUpdateLoop(samples, outcomes) ==
    \E i \in TickInputs(samples, outcomes) :
        \E g \in {get_current_song_info(Agg, i.np, i.window_title, i.sr, i.np2)} :
            /\ \A k \in DOMAIN g.A.searches : g.A.searches[k] <= MaxSearches
            /\ SetAgg(g.A)
            /\ lastTick' = TickRecord(i, g)
            /\ \E o \in OutcomesFor(update(Pub, g.val, AllOk).P.calls) :
                 \E r \in {update(Pub, g.val, o)} :
                    SetPub(r.P) /\ Log("update", g.val, r)

NextLoop ==
    RunUpdateLoop(LoopSamples, LoopOutcomes) /\ UNCHANGED <<pkg, envVars, cfgVars, prevOp, appVars>>

SpecLoop == Init /\ [][NextLoop]_vars

(***************************************************************************)
(* SpecApp: the application: startup() starts the background thread, which *)
(* goes through _run_background_operations into the polling mode or the    *)
(* update loop; shutdown() runs on the main thread.                        *)
(***************************************************************************)
AppSamples == SamplesOf({"Song A"}, LoopPlayers, 0, {TrackDuration})

\* the truth value app.py sees in check_now_playing(): music_rpc returns a
\* SongInfo object, which is always true; deezer_rpc returns a boolean
check_now_playing(np) ==
    IF pkg = "music_rpc" THEN TRUE
    ELSE np.ok /\ Truthy(np.title) /\ np.title # "Unknown" /\ np.playing

\* song_info.player = player, on the object the Aggregator returned
SetPlayer(g, player) ==
    [A |-> IF g.ref > 0 THEN [g.A EXCEPT !.heap[g.ref].player = player] ELSE g.A,
     ref |-> g.ref,
     val |-> [g.val EXCEPT !.player = player],
     raised |-> g.raised]

\* discord_manager.connect(player_name) where the code makes the call
connect_if(does, P, player_name, o) ==
    IF does THEN connect(P, player_name, o) ELSE [P |-> P, ret |-> FALSE]

\* discord_manager.update(song_info) where the code makes the call
update_if(does, P, song_info, o) ==
    IF does THEN update(P, song_info, o) ELSE [P |-> P, ret |-> FALSE]

\* the Publisher's part of shutdown(): clear the presence, then disconnect()
shutdown_publisher(P, o) ==
    disconnect(IF P.connected /\ P.rpc # None THEN Rec(P, "clear", o.clear_ok, "") ELSE P, o)

\* startup(): running is set and the background thread is started
Startup ==
    /\ pc = "idle"
    /\ running' = TRUE
    /\ pc' = "start"
    /\ UNCHANGED <<pubVars, aggVars, opVars, tickVars, loopVars>>

\* an exception of get_current_song_info leaves the handler it is caught by:
\* the tick is recorded, nothing else is written
Raised(i, g, target) ==
    /\ lastTick' = TickRecord(i, g)
    /\ searches' = searches
    /\ pc' = target
    /\ UNCHANGED <<pubVars, aggVars, opVars, loopVars>>

\* _run_background_operations, up to the loop it enters or the return it
\* takes; its whole body is in one try/except that logs and returns
RunBackgroundOperations(samples) ==
    /\ pc = "start"
    /\ \A k \in DOMAIN searches : searches[k] < MaxSearches
    /\ \E deezer_window \in BOOLEAN, app_is_deezer \in BOOLEAN,
          i \in TickInputs(samples, LoopOutcomes) :
        \E g0 \in {get_current_song_info(Agg, i.np, i.window_title, i.sr, i.np2)} :
          LET polling == ~deezer_window /\ ~check_now_playing(i.np)
              player0 == IF is_playing(g0.val) THEN g0.val.player ELSE None
              fix == IF deezer_window THEN TRUE
                     ELSE (~Truthy(player0) \/ player0 = "Unknown Player") /\ app_is_deezer
          IN  /\ (deezer_window \/ app_is_deezer) => i.window_title # None
              /\ polling => i.window_title = None
              /\ IF g0.raised
                 THEN Raised(i, g0, "exited")
                 ELSE
                   \E player_name \in {IF fix THEN "Deezer" ELSE player0},
                      g \in {IF fix THEN SetPlayer(g0, "Deezer") ELSE g0} :
                    /\ SetAgg(g.A)
                    /\ lastTick' = TickRecord(i, g)
                    /\ UNCHANGED <<prevOp, last_player, currently_disabled, was_playing>>
                    /\ \E o \in OutcomesFor(connect_if(~polling, Pub, player_name, AllOk).P.calls) :
                        \E c \in {connect_if(~polling, Pub, player_name, o)} :
                          /\ SetPub(c.P)
                          /\ Log(IF polling THEN "none" ELSE "connect", NoSong(player_name), c)
                          /\ pc' = IF polling THEN "poll"
                                   ELSE IF c.ret THEN "initial"
                                   ELSE IF /\ ~deezer_window /\ Truthy(player_name)
                                           /\ player_name \in DISABLED_PLAYERS
                                        THEN "initial"
                                   ELSE "exited"
                          /\ discord_enabled' = (deezer_window \/ c.ret)
    /\ UNCHANGED running

\* _run_update_loop, up to its while loop. pc is "initial" when it was called
\* by _run_background_operations and "initial_p" when it was called by
\* _poll_for_music_activity. The initial update's handler catches what
\* get_current_song_info raises; deezer_rpc has not bound song_info then, so
\* the statement after the handler raises in turn, out of _run_update_loop
\* and into the caller's handler: _run_background_operations returns, the
\* polling loop goes on.
InitialUpdate(samples) ==
    /\ pc \in {"initial", "initial_p"}
    /\ \A k \in DOMAIN searches : searches[k] < MaxSearches
    /\ \E i \in TickInputs(samples, LoopOutcomes) :
        \E g \in {get_current_song_info(Agg, i.np, i.window_title, i.sr, i.np2)} :
          IF g.raised
          THEN Raised(i, g, IF pc = "initial" THEN "exited" ELSE "poll")
          ELSE
            /\ SetAgg(g.A)
            /\ lastTick' = TickRecord(i, g)
            /\ last_player' = g.val.player
            /\ currently_disabled' =
                  (Truthy(g.val.player) /\ g.val.player \in DISABLED_PLAYERS)
            /\ was_playing' = is_playing(g.val)
            /\ \E o \in OutcomesFor(update_if(discord_enabled, Pub, g.val, AllOk).P.calls) :
                \E u \in {update_if(discord_enabled, Pub, g.val, o)} :
                  SetPub(u.P) /\ Log(IF discord_enabled THEN "update" ELSE "none", g.val, u)
            /\ pc' = "loop"
            /\ UNCHANGED <<prevOp, discord_enabled>>
    /\ UNCHANGED running

\* one iteration of the while loop of _run_update_loop: the probe, the
\* reconnect after a disabled player, then update() when Discord updates
\* are enabled; the iteration's handler logs an exception and sleeps
UpdateLoopIteration(samples) ==
    /\ pc = "loop" /\ running
    /\ \A k \in DOMAIN searches : searches[k] < MaxSearches
    /\ \E i \in TickInputs(samples, LoopOutcomes) :
        \E g \in {get_current_song_info(Agg, i.np, i.window_title, i.sr, i.np2)} :
          LET song_info == g.val
              current_player == song_info.player
              changed == last_player # current_player
              is_disabled == Truthy(current_player) /\ current_player \in DISABLED_PLAYERS
              reconnect == changed /\ currently_disabled /\ ~is_disabled
          IN  IF g.raised
              THEN Raised(i, g, "loop")
              ELSE
                /\ SetAgg(g.A)
                /\ lastTick' = TickRecord(i, g)
                /\ was_playing' = is_playing(song_info)
                /\ last_player' = current_player
                /\ currently_disabled' = IF changed THEN is_disabled ELSE currently_disabled
                /\ UNCHANGED <<pc, prevOp>>
                /\ \E oc \in OutcomesFor(connect_if(reconnect, Pub, current_player, AllOk).P.calls) :
                    \E c \in {connect_if(reconnect, Pub, current_player, oc)} :
                      LET enabled == IF reconnect THEN c.ret ELSE discord_enabled
                          publishes == enabled /\ ~is_disabled
                      IN  /\ discord_enabled' = enabled
                          /\ \E ou \in OutcomesFor(update_if(publishes, Pub, song_info, AllOk).P.calls) :
                              \E u \in {update_if(publishes, c.P, song_info, ou)} :
                                /\ SetPub(u.P)
                                /\ Log(IF publishes THEN "update"
                                       ELSE IF reconnect THEN "connect" ELSE "none",
                                       song_info,
                                       [P |-> u.P, ret |-> IF publishes THEN u.ret ELSE c.ret])
    /\ UNCHANGED running

\* one iteration of the while loop of _poll_for_music_activity; the
\* iteration's handler logs an exception and the loop goes on
PollIteration(samples) ==
    /\ pc = "poll" /\ running
    /\ \A k \in DOMAIN searches : searches[k] < MaxSearches
    /\ \E i \in TickInputs(samples, LoopOutcomes) :
        IF ~check_now_playing(i.np)
        THEN /\ i.window_title = None /\ i.sr = NoResult /\ i.np2 = i.np
             /\ UNCHANGED <<pubVars, aggVars, opVars, tickVars, pc, loopVars>>
        ELSE
          \E g \in {get_current_song_info(Agg, i.np, i.window_title, i.sr, i.np2)} :
            IF g.raised
            THEN Raised(i, g, "poll")
            ELSE
              \E player_name \in {IF is_playing(g.val) THEN g.val.player ELSE None} :
                \E connects \in {Truthy(player_name) /\ player_name \notin DISABLED_PLAYERS} :
                  /\ SetAgg(g.A)
                  /\ lastTick' = TickRecord(i, g)
                  /\ discord_enabled' = connects
                  /\ UNCHANGED <<prevOp, last_player, currently_disabled, was_playing>>
                  /\ \E o \in OutcomesFor(connect_if(connects, Pub, player_name, AllOk).P.calls) :
                      \E c \in {connect_if(connects, Pub, player_name, o)} :
                        /\ SetPub(c.P)
                        /\ Log(IF connects THEN "connect" ELSE "none", NoSong(player_name), c)
                        /\ pc' = IF connects /\ ~c.ret THEN "poll" ELSE "initial_p"
    /\ UNCHANGED running

\* the while loops end when running is False
ThreadExit ==
    /\ pc \in {"loop", "poll"} /\ ~running
    /\ pc' = "exited"
    /\ UNCHANGED <<running, pubVars, aggVars, opVars, tickVars, loopVars>>

\* shutdown() as the Publisher sees it: nothing when running is already False
shutdown(isrunning, P, o) ==
    IF ~isrunning THEN [P |-> P, ret |-> FALSE] ELSE shutdown_publisher(P, o)

\* shutdown(), on the main thread (signal handler, atexit, tray menu)
Shutdown ==
    /\ running' = FALSE
    /\ prevOp' = Summary(lastOp)
    /\ \E o \in OutcomesFor(shutdown(running, Pub, AllOk).P.calls) :
        \E d \in {shutdown(running, Pub, o)} :
          SetPub(d.P) /\ Log("shutdown", NoSong(None), d)
    /\ UNCHANGED <<aggVars, tickVars, pc, loopVars>>

NextApp ==
    \/ Startup /\ UNCHANGED <<pkg, envVars, cfgVars>>
    \/ RunBackgroundOperations(AppSamples) /\ UNCHANGED <<pkg, envVars, cfgVars>>
    \/ InitialUpdate(AppSamples) /\ UNCHANGED <<pkg, envVars, cfgVars>>
    \/ UpdateLoopIteration(AppSamples) /\ UNCHANGED <<pkg, envVars, cfgVars>>
    \/ PollIteration(AppSamples) /\ UNCHANGED <<pkg, envVars, cfgVars>>
    \/ ThreadExit /\ UNCHANGED <<pkg, envVars, cfgVars>>
    \/ Shutdown /\ UNCHANGED <<pkg, envVars, cfgVars>>

SpecApp == Init /\ [][NextApp]_vars

(***************************************************************************)
(* SpecFault: the application with a probe whose elapsed-time text may not *)
(* be a number, so that get_current_song_info can end in an exception     *)
(* wherever the background thread calls it.                                *)
(***************************************************************************)
FaultSamples == SamplesOf({"Song A"}, {"Deezer"}, 0, {TrackDuration})
                \cup MalformedOf(SamplesOf({"Song A"}, {"Deezer"}, 0, {TrackDuration}))

NextFault ==
    \/ Startup /\ UNCHANGED <<pkg, envVars, cfgVars>>
    \/ RunBackgroundOperations(FaultSamples) /\ UNCHANGED <<pkg, envVars, cfgVars>>
    \/ InitialUpdate(FaultSamples) /\ UNCHANGED <<pkg, envVars, cfgVars>>
    \/ UpdateLoopIteration(FaultSamples) /\ UNCHANGED <<pkg, envVars, cfgVars>>
    \/ PollIteration(FaultSamples) /\ UNCHANGED <<pkg, envVars, cfgVars>>
    \/ ThreadExit /\ UNCHANGED <<pkg, envVars, cfgVars>>
    \/ Shutdown /\ UNCHANGED <<pkg, envVars, cfgVars>>

SpecFault == Init /\ [][NextFault]_vars

(***************************************************************************)
(* SpecTool: the Aggregator with the probe's own steps: every              *)
(* get_now_playing() call starts the now-playing tool with subprocess.run; *)
(* when the tool is not installed the call raises, the handler logs the    *)
(* error and the call gives the not-playing sample.                        *)
(***************************************************************************)
MaxProbes == 2

InitTool ==
    /\ pkg \in Packages
    /\ nowplaying_cli \in {"installed", "missing"}
    /\ spawns = 0
    /\ reports = 0
    /\ UiInit
    /\ HangInit
    /\ TextInit
    /\ OtherInit
    /\ ConfigInit
    /\ PubInit
    /\ AggInit
    /\ AppInit

\* what subprocess.run([nowplaying_cli, ...]) can give
run_nowplaying_cli(samples) ==
    IF nowplaying_cli = "missing" THEN {NoSample} ELSE samples

\* get_now_playing() called by get_current_song_info()
GetNowPlaying(samples, outcomes) ==
    /\ spawns < MaxProbes
    /\ spawns' = spawns + 1
    /\ reports' = IF nowplaying_cli = "missing" THEN reports + 1 ELSE reports
    /\ GetCurrentSongInfo(run_nowplaying_cli(samples), outcomes)
    /\ UNCHANGED nowplaying_cli

NextTool ==
    GetNowPlaying(AggSamples, SearchOutcomes)
        /\ UNCHANGED <<pkg, uiVars, hangVars, sideVars, cfgVars, pubVars, opVars, appVars>>

SpecTool == InitTool /\ [][NextTool]_vars

(***************************************************************************)
(* SpecCfg: the Config object: built from any config file, then any        *)
(* sequence of set_update_interval, set_client_id, add_player_alias and    *)
(* load_config calls with arguments of every type.                         *)
(***************************************************************************)
IntervalInputs ==
    {PyInt(4), PyInt(5), PyInt(15), PyInt(60), PyInt(61), PyFloat(75),
     PyStr("15"), PyStr("61"), PyStr("abc"), PyStr("7.5"), PyNone, PyList,
     PyBool(TRUE)}

NameInputs == {PyNone, PyStr(""), PyStr("Deezer"), PyStr("Spotify"), PyList}

\* client ids: the numbers tried are 0 only, the table holds text ids
ClientIdInputs == {PyNone, PyStr(""), PyStr("123"), PyStr("abc"), PyList, PyInt(0)}

AliasInputs == {PyNone, PyStr(""), PyStr("dz"), PyInt(5), PyList}

TargetInputs == {PyNone, PyStr("Deezer"), PyStr("Nobody"), PyInt(5), PyList}

FileIntervals == {Missing, PyInt(4), PyInt(30), PyFloat(75), PyStr("10")}

FileClientIds ==
    {NoField, [type |-> "list", items |-> <<>>]}
    \cup {[type |-> "dict", items |-> << <<"Spotify", v>> >>] : v \in {PyStr("123"), PyStr("abc")}}

FileAliases ==
    {NoField}
    \cup {[type |-> "dict", items |-> [a \in {"sp"} |-> v]] : v \in {"Deezer", None}}

FileDisabled == {NoField, [type |-> "list", items |-> {}]}

ConfigFiles ==
    {PlainFile(k) : k \in {"absent", "unparseable", "bad_encoding", "number",
                           "null", "list", "string"}}
    \cup {ObjectFile(i, ids, al, dis) :
            i \in FileIntervals, ids \in FileClientIds, al \in FileAliases,
            dis \in FileDisabled}

\* the fields after the assignments of __init__, before load_config
Defaults(file) ==
    [update_interval |-> PyInt(DEFAULT_UPDATE_INTERVAL),
     discord_client_ids |-> DEFAULT_DISCORD_CLIENT_IDS,
     player_aliases |-> DEFAULT_PLAYER_ALIASES,
     DISABLED_PLAYERS |-> DEFAULT_DISABLED_PLAYERS,
     config_file |-> file]

SetCfg(r, op) ==
    /\ update_interval' = r.C.update_interval
    /\ discord_client_ids' = r.C.discord_client_ids
    /\ player_aliases' = r.C.player_aliases
    /\ DISABLED_PLAYERS' = r.C.DISABLED_PLAYERS
    /\ config_file' = r.C.config_file
    /\ lastCfg' = [op |-> op, ok |-> r.ok, raised |-> r.raised, saved |-> r.saved]

\* Config.__init__ over any config file
InitCfg ==
    /\ pkg \in Packages
    /\ \E file \in ConfigFiles :
         \E r \in {load_config(Defaults(file))} :
            /\ update_interval = r.C.update_interval
            /\ discord_client_ids = r.C.discord_client_ids
            /\ player_aliases = r.C.player_aliases
            /\ DISABLED_PLAYERS = r.C.DISABLED_PLAYERS
            /\ config_file = file
            /\ lastCfg = [op |-> "__init__", ok |-> r.ok, raised |-> r.raised,
                          saved |-> FALSE]
    /\ EnvInit
    /\ PubInit
    /\ AggInit
    /\ AppInit

\* the constructor returned an object
Constructed == ~(lastCfg.op = "__init__" /\ lastCfg.raised # None)

SetUpdateInterval(interval) ==
    /\ Constructed
    /\ SetCfg(set_update_interval(Cfg, interval), "set_update_interval")

SetClientId(player_name, client_id) ==
    /\ Constructed
    /\ SetCfg(set_client_id(Cfg, player_name, client_id), "set_client_id")

AddPlayerAlias(alias, normalized_name) ==
    /\ Constructed
    /\ SetCfg(add_player_alias(Cfg, alias, normalized_name), "add_player_alias")

LoadConfig ==
    /\ Constructed
    /\ SetCfg(load_config(Cfg), "load_config")

NextCfg ==
    \/ (\E interval \in IntervalInputs : SetUpdateInterval(interval))
          /\ UNCHANGED <<pkg, envVars, pubVars, aggVars, opVars, tickVars, appVars>>
    \/ (\E player_name \in NameInputs, client_id \in ClientIdInputs :
            SetClientId(player_name, client_id))
          /\ UNCHANGED <<pkg, envVars, pubVars, aggVars, opVars, tickVars, appVars>>
    \/ (\E alias \in AliasInputs, normalized_name \in TargetInputs :
            AddPlayerAlias(alias, normalized_name))
          /\ UNCHANGED <<pkg, envVars, pubVars, aggVars, opVars, tickVars, appVars>>
    \/ LoadConfig
          /\ UNCHANGED <<pkg, envVars, pubVars, aggVars, opVars, tickVars, appVars>>

SpecCfg == InitCfg /\ [][NextCfg]_vars

(***************************************************************************)
(* SpecUi: the tray application.  The polling thread calls                 *)
(* update_now_playing and update_discord_status; the UI thread runs the    *)
(* timer callback process_ui_updates, one queue item at a time, and the    *)
(* click callback set_interval.  The two threads interleave at every queue *)
(* operation.                                                              *)
(***************************************************************************)
MaxQueue == 2

IntervalOptions == {5, 10, 30}

UiItem(type, title, flag, n) == [type |-> type, title |-> title, flag |-> flag, n |-> n]

\* the tray application: queue, menu items, who modified a menu item last
Ui == [update_queue |-> update_queue, menu |-> menu, menu_writer |-> menu_writer]

Writer(thread, handler) == [thread |-> thread, handler |-> handler]

\* update_now_playing writing the menu item itself
update_now_playing_direct(U, thread, title) ==
    [U EXCEPT !.menu.now_playing = title,
              !.menu_writer = Writer(thread, "update_now_playing")]

\* MusicRPCTrayApp.update_now_playing, called by thread
update_now_playing(U, thread, title) ==
    [U EXCEPT !.update_queue = Append(@, UiItem("now_playing", title, FALSE, 0))]

\* MusicRPCTrayApp.update_discord_status, called by thread
update_discord_status(U, thread, is_connected) ==
    [U EXCEPT !.update_queue = Append(@, UiItem("discord_status", None, is_connected, 0))]

\* the body of the loop of process_ui_updates, for the item taken
apply_update(U, thread, item) ==
    CASE item.type = "now_playing" ->
           [U EXCEPT !.menu.now_playing = item.title,
                     !.menu_writer = Writer(thread, "process_ui_updates")]
      [] item.type = "discord_status" ->
           [U EXCEPT !.menu.discord_status = item.flag,
                     !.menu_writer = Writer(thread, "process_ui_updates")]
      [] item.type = "interval" ->
           [U EXCEPT !.menu.checked = item.n,
                     !.menu_writer = Writer(thread, "process_ui_updates")]

\* set_interval after config.set_update_interval: music_rpc sets the
\* checkmarks itself, deezer_rpc queues the change
set_interval(U, thread, interval, success) ==
    IF ~success THEN U
    ELSE IF pkg = "music_rpc"
    THEN [U EXCEPT !.menu.checked = interval,
                   !.menu_writer = Writer(thread, "set_interval")]
    ELSE [U EXCEPT !.update_queue = Append(@, UiItem("interval", None, FALSE, interval))]

SetUi(U) ==
    /\ update_queue' = U.update_queue
    /\ menu' = U.menu
    /\ menu_writer' = U.menu_writer

\* ---- the polling thread ----
UpdateNowPlaying ==
    /\ Len(update_queue) < MaxQueue
    /\ \E title \in {"Song A", None} : SetUi(update_now_playing(Ui, "poller", title))
    /\ UNCHANGED <<ui_pc, cfgVars>>

UpdateDiscordStatus ==
    /\ Len(update_queue) < MaxQueue
    /\ \E is_connected \in BOOLEAN :
          SetUi(update_discord_status(Ui, "poller", is_connected))
    /\ UNCHANGED <<ui_pc, cfgVars>>

\* ---- the UI thread ----
TimerFire ==
    /\ ui_pc = "idle"
    /\ ui_pc' = "process_ui_updates"
    /\ UNCHANGED <<update_queue, menu, menu_writer, cfgVars>>

ProcessOne ==
    /\ ui_pc = "process_ui_updates"
    /\ update_queue # <<>>
    /\ SetUi(apply_update([Ui EXCEPT !.update_queue = Tail(@)], "ui", Head(update_queue)))
    /\ UNCHANGED <<ui_pc, cfgVars>>

ProcessDone ==
    /\ ui_pc = "process_ui_updates"
    /\ update_queue = <<>>
    /\ ui_pc' = "idle"
    /\ UNCHANGED <<update_queue, menu, menu_writer, cfgVars>>

SetIntervalClicked ==
    /\ ui_pc = "idle"
    /\ Len(update_queue) < MaxQueue
    /\ \E interval \in IntervalOptions :
         \E r \in {set_update_interval(Cfg, IF pkg = "music_rpc" THEN PyInt(interval)
                                            ELSE PyStr(IntText(interval)))} :
            /\ SetCfg(r, "set_update_interval")
            /\ SetUi(set_interval(Ui, "ui", interval, r.ok))
    /\ UNCHANGED ui_pc

NextUi ==
    \/ UpdateNowPlaying
          /\ UNCHANGED <<pkg, toolVars, sideVars, hangVars, pubVars, aggVars, opVars, tickVars, appVars>>
    \/ UpdateDiscordStatus
          /\ UNCHANGED <<pkg, toolVars, sideVars, hangVars, pubVars, aggVars, opVars, tickVars, appVars>>
    \/ TimerFire
          /\ UNCHANGED <<pkg, toolVars, sideVars, hangVars, pubVars, aggVars, opVars, tickVars, appVars>>
    \/ ProcessOne
          /\ UNCHANGED <<pkg, toolVars, sideVars, hangVars, pubVars, aggVars, opVars, tickVars, appVars>>
    \/ ProcessDone
          /\ UNCHANGED <<pkg, toolVars, sideVars, hangVars, pubVars, aggVars, opVars, tickVars, appVars>>
    \/ SetIntervalClicked
          /\ UNCHANGED <<pkg, toolVars, sideVars, hangVars, pubVars, aggVars, opVars, tickVars, appVars>>

SpecUi == Init /\ [][NextUi]_vars

(***************************************************************************)
(* SpecHang: the external calls of one polling iteration, made one after   *)
(* the other by the polling thread: the now-playing tool, the player       *)
(* detection, the catalog search, the cover check.  A call answers, or     *)
(* never answers on its own; a call made with a timeout then ends when the *)
(* timeout expires, a call made without one never returns.  The iteration  *)
(* ends in time.sleep.                                                     *)
(***************************************************************************)
\* time.sleep(update_interval) is over: the next iteration begins
Wake ==
    /\ tick_pc = Sleeping
    /\ tick_pc' = 1
    /\ tick_log' = <<>>
    /\ UNCHANGED call_state

\* subprocess.run(...) / requests.get(...) is entered
StartCall ==
    /\ tick_pc # Sleeping
    /\ call_state = "idle"
    /\ call_state' = "waiting"
    /\ UNCHANGED <<tick_pc, tick_log>>

\* the branch of the iteration does not make this call
SkipCall ==
    /\ tick_pc # Sleeping
    /\ call_state = "idle"
    /\ ExternalCalls[tick_pc].optional
    /\ tick_log' = Append(tick_log, "skipped")
    /\ tick_pc' = AfterCall(tick_pc)
    /\ UNCHANGED call_state

\* the external process or server answers
Answer ==
    /\ call_state = "waiting"
    /\ call_state' = "idle"
    /\ tick_log' = Append(tick_log, "answered")
    /\ tick_pc' = AfterCall(tick_pc)

\* the external process or server will never answer
NeverAnswers ==
    /\ call_state = "waiting"
    /\ call_state' = "hung"
    /\ UNCHANGED <<tick_pc, tick_log>>

\* the timeout of the call expires: TimeoutExpired / requests.Timeout is
\* raised and handled
TimeoutExpires ==
    /\ call_state = "hung"
    /\ ExternalCalls[tick_pc].timeout.bounded
    /\ call_state' = "idle"
    /\ tick_log' = Append(tick_log, "timeout")
    /\ tick_pc' = AfterCall(tick_pc)

NextHang ==
    \/ Wake /\ UNCHANGED <<pkg, toolVars, sideVars, uiVars, cfgVars, pubVars, aggVars, opVars, tickVars, appVars>>
    \/ StartCall /\ UNCHANGED <<pkg, toolVars, sideVars, uiVars, cfgVars, pubVars, aggVars, opVars, tickVars, appVars>>
    \/ SkipCall /\ UNCHANGED <<pkg, toolVars, sideVars, uiVars, cfgVars, pubVars, aggVars, opVars, tickVars, appVars>>
    \/ Answer /\ UNCHANGED <<pkg, toolVars, sideVars, uiVars, cfgVars, pubVars, aggVars, opVars, tickVars, appVars>>
    \/ NeverAnswers /\ UNCHANGED <<pkg, toolVars, sideVars, uiVars, cfgVars, pubVars, aggVars, opVars, tickVars, appVars>>
    \/ TimeoutExpires /\ UNCHANGED <<pkg, toolVars, sideVars, uiVars, cfgVars, pubVars, aggVars, opVars, tickVars, appVars>>

SpecHang == Init /\ [][NextHang]_vars

\* the polling thread keeps running and a timeout that is set does expire
SpecHangFair == SpecHang /\ WF_vars(NextHang)

(***************************************************************************)
(* SpecText: _ensure_unicode applied again and again to a text made of     *)
(* escape sequences, parts of escape sequences and plain characters.       *)
(***************************************************************************)
MaxPieces == 3
MaxPasses == 2

Pieces ==
    { <<"\\", "u", "0", "0", "5", "C">>,
      <<"u", "0", "0", "4", "1">>,
      <<"\\", "u", "0", "0", "4", "1">>,
      <<"A">>,
      <<"U", "0", "0", "0", "0", "0", "0", "4", "1">>,
      <<"C">>,
      <<"\\", "u", "0", "3", "0", "C">> }

RECURSIVE TextsOf(_)
TextsOf(n) ==
    IF n = 0 THEN {<<>>}
    ELSE TextsOf(n - 1) \cup {t \o p : t \in TextsOf(n - 1), p \in Pieces}

InitText ==
    /\ pkg \in Packages
    /\ raw_text \in TextsOf(MaxPieces)
    /\ norm_text = raw_text
    /\ passes = 0
    /\ ToolInit
    /\ UiInit
    /\ HangInit
    /\ OtherInit
    /\ ConfigInit
    /\ PubInit
    /\ AggInit
    /\ AppInit

EnsureUnicode ==
    /\ passes < MaxPasses
    /\ norm_text' = ensure_unicode(norm_text)
    /\ passes' = passes + 1
    /\ UNCHANGED raw_text

NextText ==
    EnsureUnicode
        /\ UNCHANGED <<pkg, toolVars, uiVars, hangVars, otherVars, cfgVars, pubVars, aggVars,
                       opVars, tickVars, appVars>>

SpecText == InitText /\ [][NextText]_vars

(***************************************************************************)
(* SpecIdent: the probe's player identification.  The input is what the    *)
(* tool's output and the process table show; the result is the player and  *)
(* the list of the steps that were run, each with whether it hit.          *)
(***************************************************************************)
\* the keywords k for which "k in identifier.lower()" holds
KeywordsIn(identifier) ==
    CASE identifier = "com.apple.Music" -> {"apple", "music"}
      [] identifier = "com.spotify.client" -> {"spotify"}
      [] identifier = "com.apple.Safari" -> {"apple"}
      [] identifier = "deezer:track:1" -> {"deezer"}
      [] identifier = "Spotify" -> {"spotify"}
      [] identifier = "Apple Music" -> {"apple", "music"}
      [] OTHER -> {}

Step(name, hit) == [step |-> name, hit |-> hit]

Found(player, steps) == [player |-> player, steps |-> steps]

\* the bundle identifier patterns of deezer_rpc get_now_playing
bundle_player(bundle_identifier) ==
    LET k == KeywordsIn(bundle_identifier) IN
    IF ~Truthy(bundle_identifier) THEN None
    ELSE IF "apple" \in k /\ "music" \in k THEN "Music"
    ELSE IF "spotify" \in k THEN "Spotify"
    ELSE IF "deezer" \in k THEN "Deezer"
    ELSE IF "vlc" \in k THEN "VLC"
    ELSE IF "itunes" \in k THEN "iTunes"
    ELSE IF "youtube" \in k THEN "YouTube"
    ELSE None

\* the content identifier patterns
content_player(content_identifier) ==
    LET k == KeywordsIn(content_identifier) IN
    IF ~Truthy(content_identifier) THEN None
    ELSE IF "apple" \in k THEN "Music"
    ELSE IF "spotify" \in k THEN "Spotify"
    ELSE IF "deezer" \in k THEN "Deezer"
    ELSE None

\* the mapping of the answer of the tool's source sub-command
source_player(source) ==
    LET k == KeywordsIn(source) IN
    IF source = "" THEN None
    ELSE IF "music" \in k \/ "apple" \in k THEN "Music"
    ELSE IF "spotify" \in k THEN "Spotify"
    ELSE IF "deezer" \in k THEN "Deezer"
    ELSE IF "itunes" \in k THEN "iTunes"
    ELSE IF "vlc" \in k THEN "VLC"
    ELSE IF "youtube" \in k THEN "YouTube"
    ELSE source

\* pgrep -i app_name for each name of the list, until one is running
RECURSIVE pgrep_each(_, _, _)
pgrep_each(apps, running_apps, i) ==
    IF i > Len(apps) THEN Found(None, <<>>)
    ELSE IF apps[i] \in running_apps
         THEN Found(apps[i], <<Step("pgrep " \o apps[i], TRUE)>>)
         ELSE LET r == pgrep_each(apps, running_apps, i + 1) IN
              Found(r.player, <<Step("pgrep " \o apps[i], FALSE)>> \o r.steps)

\* one step of the chain after the steps made so far: nothing when a player
\* is known already
Then(f, name, player) ==
    IF f.player # None THEN f
    ELSE Found(player, Append(f.steps, Step(name, player # None)))

ThenPgrep(f, apps, running_apps) ==
    IF f.player # None THEN f
    ELSE LET r == pgrep_each(apps, running_apps, 1) IN Found(r.player, f.steps \o r.steps)

DeezerProcessChecks == <<"Deezer", "Music", "Spotify", "iTunes", "VLC", "YouTube">>

\* deezer_rpc get_now_playing, the player part
deezer_identify_player(info) ==
    LET s1 == Found(IF Truthy(info.client_name) THEN info.client_name ELSE None,
                    <<Step("client_name", Truthy(info.client_name))>>)
        s2 == Then(s1, "bundle", bundle_player(info.bundle))
        s3 == Then(s2, "content", content_player(info.content))
        s4 == ThenPgrep(s3, DeezerProcessChecks, info.running)
    IN  Then(s4, "source", source_player(info.source))

MusicProcessChecks == <<"Spotify", "Music", "iTunes", "VLC", "YouTube", "Tidal">>

\* music_rpc get_now_playing, the player part: _detect_deezer, the artist
\* text, _identify_player
music_identify_player(info) ==
    LET s1 == ThenPgrep(Found(None, <<>>), <<"Deezer">>, info.running)
        s2 == Then(s1, "artist",
                   IF Truthy(info.artist) /\ "music" \in KeywordsIn(info.artist)
                   THEN "Apple Music" ELSE None)
    IN  ThenPgrep(s2, MusicProcessChecks, info.running)

identify_player(info) ==
    IF pkg = "music_rpc" THEN music_identify_player(info)
    ELSE deezer_identify_player(info)

ProbeInfos ==
    [client_name : {None, "Spotify"},
     bundle : {None, "com.spotify.client", "com.apple.Safari"},
     content : {None, "deezer:track:1"},
     artist : {"Artist X", "Apple Music"},
     running : SUBSET {"Deezer", "Music", "Tidal"},
     source : {"", "Spotify", "Foobar"}]

\* one call of get_now_playing() whose probe gave a title
IdentifyPlayer ==
    \E info \in ProbeInfos :
        /\ identified.steps = <<>>
        /\ probe_info' = info
        /\ identified' = identify_player(info)

NextIdent ==
    IdentifyPlayer
        /\ UNCHANGED <<pkg, toolVars, uiVars, hangVars, textVars, payloadVars, peerVars, raceVars, testVars, shareVars, cfgVars,
                       pubVars, aggVars, opVars, tickVars, appVars>>

SpecIdent == Init /\ [][NextIdent]_vars

(***************************************************************************)
(* SpecPayload: the text fields update() hands to the protocol's update    *)
(* call.  A text is its number of characters (0: None or empty); the       *)
(* texts have no escape sequences, so that the display normalisation       *)
(* leaves their length as it is.                                           *)
(***************************************************************************)

\* Discord's limit for a text field
FieldLimit == 128

\* the longest text tried
MaxTextLen == FieldLimit + 1

Min(a, b) == IF a < b THEN a ELSE b

\* text or default: the length of the text, or of the default of n characters
OrElse(len, n) == IF len > 0 THEN len ELSE n

\* text[:n]
Slice(len, n) == Min(len, n)

\* music_rpc update(): update_data.  "Unknown" has 7 characters, "Unknown
\* Artist" 14, "Music Player" 12
music_update_data(t) ==
    LET title == OrElse(t.title, 7)
        artist == OrElse(t.artist, 14)
        player_name == OrElse(t.player, 12)
    IN  [details |-> Slice(title, FieldLimit),
         state |-> Slice(artist, FieldLimit),
         large_text |-> IF t.art THEN OrElse(t.album, player_name) ELSE player_name]

\* deezer_rpc update(): update_data.  "Listening to " has 13 characters,
\* "by " 3; _ensure_unicode_display(None) is "Unknown"
deezer_update_data(t) ==
    LET title == OrElse(t.title, 7)
        artist == OrElse(t.artist, 7)
    IN  [details |-> 13 + title,
         state |-> 3 + artist,
         large_text |-> title,
         small_text |-> artist]

build_update_data(t) ==
    IF pkg = "music_rpc" THEN music_update_data(t) ELSE deezer_update_data(t)

TextLengths == {1, 115, 116, FieldLimit, MaxTextLen}

TrackTexts ==
    [title : TextLengths, artist : TextLengths, album : {0} \cup TextLengths,
     player : {0, 6, MaxTextLen}, art : BOOLEAN]

\* update(song_info) for a playing track with a new title, up to the call
BuildUpdateData ==
    \E t \in TrackTexts :
        /\ update_data = <<>>
        /\ track_text' = t
        /\ update_data' = build_update_data(t)

NextPayload ==
    BuildUpdateData
        /\ UNCHANGED <<pkg, toolVars, uiVars, hangVars, textVars, identVars, peerVars, raceVars, testVars, shareVars, cfgVars,
                       pubVars, aggVars, opVars, tickVars, appVars>>

SpecPayload == Init /\ [][NextPayload]_vars

(***************************************************************************)
(* SpecShown: the Publisher's operations together with what the presence   *)
(* service has been given on the connection that is open: a new connection *)
(* shows nothing, a successful update shows its track, a successful clear  *)
(* or the end of the connection removes it, a failed call changes nothing. *)
(***************************************************************************)
RECURSIVE ShownAfter(_, _, _, _)
ShownAfter(s, calls, i, title) ==
    IF i > Len(calls) THEN s
    ELSE LET c == calls[i]
             s1 == CASE c.call = "connect" -> None
                     [] c.call = "close" -> None
                     [] c.call = "clear" -> IF c.ok THEN None ELSE s
                     [] c.call = "update" -> IF c.ok THEN title ELSE s
                     [] OTHER -> s
         IN  ShownAfter(s1, calls, i + 1, title)

Delivered == shown' = ShownAfter(shown, lastOp'.calls, 1, lastOp'.title)

NextShown ==
    \/ Connect /\ Delivered
         /\ UNCHANGED <<pkg, toolVars, uiVars, hangVars, textVars, identVars, payloadVars,
                        raceVars, testVars, shareVars, cfgVars, aggVars, tickVars, prevOp, appVars>>
    \/ Update /\ Delivered
         /\ UNCHANGED <<pkg, toolVars, uiVars, hangVars, textVars, identVars, payloadVars,
                        raceVars, testVars, shareVars, cfgVars, aggVars, tickVars, prevOp, appVars>>
    \/ Disconnect /\ Delivered
         /\ UNCHANGED <<pkg, toolVars, uiVars, hangVars, textVars, identVars, payloadVars,
                        raceVars, testVars, shareVars, cfgVars, aggVars, tickVars, prevOp, appVars>>

SpecShown == Init /\ [][NextShown]_vars

(***************************************************************************)
(* SpecRace: the application with the iteration of the update loop in two  *)
(* steps, so that shutdown() on the main thread can run between the        *)
(* iteration's get_current_song_info() and its discord_manager calls.      *)
(***************************************************************************)
RaceSamples == SamplesOf({"Song A"}, {"Deezer"}, 0, {TrackDuration})

\* the while test and get_current_song_info() of one iteration
LoopProbe(samples) ==
    /\ pc = "loop" /\ running
    /\ \A k \in DOMAIN searches : searches[k] < MaxSearches
    /\ \E i \in TickInputs(samples, LoopOutcomes) :
        \E g \in {get_current_song_info(Agg, i.np, i.window_title, i.sr, i.np2)} :
          IF g.raised
          THEN Raised(i, g, "loop") /\ UNCHANGED inflight
          ELSE
            /\ SetAgg(g.A)
            /\ lastTick' = TickRecord(i, g)
            /\ inflight' = g.val
            /\ pc' = "tick"
            /\ UNCHANGED <<pubVars, opVars, loopVars>>
    /\ UNCHANGED running

\* the rest of the iteration: the reconnect after a disabled player and
\* update(), with the track the iteration fetched
LoopUpdate ==
    /\ pc = "tick"
    /\ LET song_info == inflight
           current_player == song_info.player
           changed == last_player # current_player
           is_disabled == Truthy(current_player) /\ current_player \in DISABLED_PLAYERS
           reconnect == changed /\ currently_disabled /\ ~is_disabled
       IN  /\ was_playing' = is_playing(song_info)
           /\ last_player' = current_player
           /\ currently_disabled' = IF changed THEN is_disabled ELSE currently_disabled
           /\ \E oc \in OutcomesFor(connect_if(reconnect, Pub, current_player, AllOk).P.calls) :
               \E c \in {connect_if(reconnect, Pub, current_player, oc)} :
                 \E enabled \in {IF reconnect THEN c.ret ELSE discord_enabled} :
                   \E publishes \in {enabled /\ ~is_disabled} :
                     /\ discord_enabled' = enabled
                     /\ \E ou \in OutcomesFor(update_if(publishes, Pub, song_info, AllOk).P.calls) :
                         \E u \in {update_if(publishes, c.P, song_info, ou)} :
                           /\ SetPub(u.P)
                           /\ Log(IF publishes THEN "update"
                                  ELSE IF reconnect THEN "connect" ELSE "none",
                                  song_info,
                                  [P |-> u.P, ret |-> IF publishes THEN u.ret ELSE c.ret])
    /\ pc' = "loop"
    /\ UNCHANGED <<running, aggVars, tickVars, prevOp, inflight>>

raceFrame ==
    <<pkg, toolVars, uiVars, hangVars, textVars, identVars, payloadVars, peerVars, testVars,
      shareVars, cfgVars>>

NextRace ==
    \/ Startup /\ UNCHANGED <<raceFrame, inflight>>
    \/ RunBackgroundOperations(RaceSamples) /\ UNCHANGED <<raceFrame, inflight>>
    \/ InitialUpdate(RaceSamples) /\ UNCHANGED <<raceFrame, inflight>>
    \/ LoopProbe(RaceSamples) /\ UNCHANGED raceFrame
    \/ LoopUpdate /\ UNCHANGED raceFrame
    \/ PollIteration(RaceSamples) /\ UNCHANGED <<raceFrame, inflight>>
    \/ ThreadExit /\ UNCHANGED <<raceFrame, inflight>>
    \/ Shutdown /\ UNCHANGED <<raceFrame, inflight>>

SpecRace == Init /\ [][NextRace]_vars

(***************************************************************************)
(* SpecLive: the background thread from startup on, never shut down.  The  *)
(* first probe, in _run_background_operations, finds anything (a track on  *)
(* any player, a track of an unidentified player, nothing); every later    *)
(* probe finds the track playing on Deezer, which is not disabled.         *)
(* SpecLiveFair: the thread is a daemon thread that is always scheduled,   *)
(* so a step it can take is taken.                                         *)
(***************************************************************************)
LiveSamples == {np \in AppSamples : np.ok /\ np.playing /\ np.player = "Deezer"}

NextLive ==
    \/ Startup /\ UNCHANGED <<pkg, envVars, cfgVars>>
    \/ RunBackgroundOperations(AppSamples) /\ UNCHANGED <<pkg, envVars, cfgVars>>
    \/ InitialUpdate(LiveSamples) /\ UNCHANGED <<pkg, envVars, cfgVars>>
    \/ UpdateLoopIteration(LiveSamples) /\ UNCHANGED <<pkg, envVars, cfgVars>>
    \/ PollIteration(LiveSamples) /\ UNCHANGED <<pkg, envVars, cfgVars>>

SpecLive == Init /\ [][NextLive]_vars

SpecLiveFair == SpecLive /\ WF_vars(NextLive)

(***************************************************************************)
(* SpecDisabled: the two tests for a disabled player, the application      *)
(* loop's and the Publisher's, made on one player name after the other,    *)
(* with the default configuration and the aliases added to it.             *)
(***************************************************************************)
\* the application's test: current_player in DISABLED_PLAYERS if current_player else False
is_disabled_player(player_name) ==
    Truthy(player_name) /\ player_name \in DISABLED_PLAYERS

TestedNames == {None, "Deezer", "Music", "music", "Apple Music", "Spotify", "dz"}

TestPlayer ==
    \E p \in TestedNames :
        tested' = [made |-> TRUE, player |-> p,
                   is_disabled |-> is_disabled_player(p),
                   client_id |-> get_client_id(p)]

NextDisabled ==
    \/ TestPlayer
          /\ UNCHANGED <<pkg, toolVars, uiVars, hangVars, textVars, identVars, payloadVars,
                         peerVars, raceVars, shareVars, cfgVars, pubVars, aggVars, opVars,
                         tickVars, appVars>>
    \/ (\E alias \in AliasInputs, normalized_name \in TargetInputs :
            AddPlayerAlias(alias, normalized_name))
          /\ UNCHANGED <<pkg, envVars, pubVars, aggVars, opVars, tickVars, appVars>>

SpecDisabled == Init /\ [][NextDisabled]_vars

(***************************************************************************)
(* SpecShare: the polling thread fetches the current track and hands the   *)
(* object to the tray's update queue; the UI thread takes the objects from *)
(* the queue later and reads their fields then.                            *)
(***************************************************************************)
ShareSamples == SamplesOf({"Song A"}, AggPlayers, 0, {TrackDuration})

\* the three menu titles process_ui_updates sets for a now_playing item
render(song_info) ==
    IF is_playing(song_info)
    THEN <<song_info.title, song_info.artist,
           IF Truthy(song_info.player) THEN song_info.player ELSE "Unknown">>
    ELSE <<NotPlayingTitle, "No artist", "No player detected">>

\* one iteration of the polling thread: get_current_song_info(), then
\* tray_app.update_now_playing(song_info)
FetchAndQueue(samples, outcomes) ==
    /\ Len(handed) < MaxQueue
    /\ \E i \in TickInputs(samples, outcomes) :
        \E g \in {get_current_song_info(Agg, i.np, i.window_title, i.sr, i.np2)} :
            /\ \A k \in DOMAIN g.A.searches : g.A.searches[k] <= MaxSearches
            /\ ~g.raised
            /\ SetAgg(g.A)
            /\ lastTick' = TickRecord(i, g)
            /\ handed' = Append(handed, [ref |-> g.ref, val |-> g.val])
    /\ UNCHANGED rendered

\* process_ui_updates taking one now_playing item: it reads the object's
\* fields as they are now
ProcessNowPlaying ==
    /\ handed # <<>>
    /\ \E item \in {Head(handed)} :
        \E song_info \in {IF item.ref > 0 THEN heap[item.ref] ELSE item.val} :
            rendered' = [made |-> TRUE, now |-> render(song_info),
                         queued |-> render(item.val)]
    /\ handed' = Tail(handed)
    /\ UNCHANGED <<aggVars, tickVars>>

NextShare ==
    \/ FetchAndQueue(ShareSamples, LoopOutcomes)
          /\ UNCHANGED <<pkg, toolVars, uiVars, hangVars, textVars, identVars, payloadVars,
                         peerVars, raceVars, testVars, cfgVars, pubVars, opVars, appVars>>
    \/ ProcessNowPlaying
          /\ UNCHANGED <<pkg, toolVars, uiVars, hangVars, textVars, identVars, payloadVars,
                         peerVars, raceVars, testVars, cfgVars, pubVars, opVars, appVars>>

SpecShare == Init /\ [][NextShare]_vars

(***************************************************************************)
(* Properties of the Publisher                                             *)
(***************************************************************************)
CallIdx(name) == {i \in 1..Len(lastOp.calls) : lastOp.calls[i].call = name}

FailedIdx(name) == {i \in CallIdx(name) : ~lastOp.calls[i].ok}

\* C3: every protocol update call is made while connected is True and a
\* connection object exists
C3_UpdateOnlyWhileConnected ==
    \A i \in CallIdx("update") :
        lastOp.calls[i].connected /\ lastOp.calls[i].hasrpc

\* an update() that had to connect first and then published
C3_Witness ==
    /\ lastOp.op = "update"
    /\ \E i \in CallIdx("connect"), j \in CallIdx("update") : i < j

\* C5: after a failed connect() and after a failed protocol update inside
\* update() the Publisher is Disconnected: connected False and
\* current_client_id None
C5_DisconnectedAfterFailure ==
    (/\ lastOp.op \in {"connect", "update"}
     /\ ~lastOp.ret
     /\ Len(lastOp.calls) > 0
     /\ LET last == lastOp.calls[Len(lastOp.calls)]
        IN  last.call \in {"connect", "update"} /\ ~last.ok)
    => (connected = FALSE /\ current_client_id = None)

\* C6: at the moment connect() opens a connection with identifier X,
\* current_client_id is None or X
C6_ClientIdClearedBeforeConnect ==
    \A i \in CallIdx("connect") :
        lastOp.calls[i].cur \in {None, lastOp.calls[i].arg}

\* C7: connect(player) for a disabled player returns False and leaves
\* connected False and current_client_id None
C7_DisabledConnect ==
    (/\ lastOp.op = "connect"
     /\ get_client_id(IF Truthy(lastOp.player) THEN lastOp.player ELSE "Music") = None)
    => (~lastOp.ret /\ connected = FALSE /\ current_client_id = None)

\* C9: when the protocol update call fails inside update(), exactly one more
\* update call follows, with the default art, and update() fails only if
\* that retry fails
C9_RetryWithDefaultArt ==
    (lastOp.op = "update" /\ CallIdx("update") # {})
    => LET first == CHOOSE i \in CallIdx("update") : \A j \in CallIdx("update") : i <= j
       IN  ~lastOp.calls[first].ok
           => /\ Cardinality(CallIdx("update")) = 2
              /\ \A j \in CallIdx("update") \ {first} :
                    /\ lastOp.calls[j].arg \in {DefaultCover, DefaultIcon}
                    /\ lastOp.ret = lastOp.calls[j].ok

\* C10: update() of a playing track whose player is None is not blocked:
\* when the remote side accepts every call, update() succeeds
C10_UnresolvedPlayerNotBlocked ==
    (/\ lastOp.op = "update"
     /\ ~Truthy(lastOp.player)
     /\ lastOp.playing /\ lastOp.title # NotPlayingTitle
     /\ \A i \in 1..Len(lastOp.calls) : lastOp.calls[i].ok)
    => lastOp.ret

C2_PausedTickClears ==
    (lastOp.op = "update" /\ lastTick.ok /\ ~lastTick.playing)
    => /\ CallIdx("clear") # {}
       /\ CallIdx("update") = {}
       /\ last_title = None

C4_FailureNeverEndsPolling ==
    running => pc # "exited"

(***************************************************************************)
(* Properties of the Aggregator's result                                   *)
(***************************************************************************)
\* C11: get_current_song_info() never raises, whatever the probe, the cache
\* and the search give: every tick ends with a returned track
C11_NeverRaises ==
    ~lastTick.raised

\* C12: whenever the probe reports a track that is not playing (a paused
\* track with its title included), the Aggregator returns the sentinel
\* track whose title is "Not playing"
C12_PausedGivesSentinel ==
    (lastTick.ok /\ ~lastTick.playing /\ ~lastTick.raised)
    => lastTick.rtitle = NotPlayingTitle

(***************************************************************************)
(* Properties of the application's exception handling                      *)
(***************************************************************************)
\* C13: an exception raised while the update loop runs, its initial update
\* included, is caught and the loop goes on: the step in which
\* get_current_song_info raises inside _run_update_loop never ends the
\* background thread while running is True
C13_ExceptionNeverEndsLoop ==
    [][(pc \in {"initial", "initial_p", "loop"} /\ running /\ lastTick'.raised)
       => pc' # "exited"]_vars

\* C14: shutdown() is idempotent: the call made while running is True sets
\* running to False, clears the presence when one is connected and leaves
\* the Publisher disconnected; a call made when running is already False
\* makes no protocol call and changes no state
C14_ShutdownIdempotent ==
    [][Shutdown =>
         IF running
         THEN /\ ~running' /\ ~connected' /\ rpc' = None
              /\ (connected /\ rpc # None)
                     => (lastOp'.calls # <<>> /\ lastOp'.calls[1].call = "clear")
         ELSE /\ lastOp'.calls = <<>>
              /\ UNCHANGED <<pubVars, aggVars, tickVars, appVars>>]_vars

(***************************************************************************)
(* Properties of the search cascade                                        *)
(***************************************************************************)
\* C15: when the first seven stages yield no art and only stage 8 (the full
\* diacritic-stripped query) has art, the search the Aggregator makes
\* returns the stage-8 result, stage 8 being the last stage attempted
C15_Stage8ResultReturned ==
    (lastTick.ok /\ lastTick.stages # <<>> /\ lastTick.first_art = Len(StageNames))
    => /\ lastTick.source = Len(StageNames)
       /\ lastTick.stages[Len(lastTick.stages)] = Len(StageNames)
       /\ lastTick.rcover = ArtUrl

\* C16: the stages of a search are attempted in the order primary,
\* title-only, diacritic-stripped, artist aliases, known-artist-ID top
\* tracks, simplified title, first word plus alias, full stripped query
\* (1 to 8), and a stage is attempted only if no earlier stage has art
C16_OrderedCascade ==
    /\ \A m, n \in DOMAIN lastTick.stages :
          m < n => lastTick.stages[m] < lastTick.stages[n]
    /\ \A n \in DOMAIN lastTick.stages :
          lastTick.first_art = 0 \/ lastTick.stages[n] <= lastTick.first_art

C18_OnlyVerifiedArtCached ==
    [][\A k \in DOMAIN song_cache' :
         (\/ k \notin DOMAIN song_cache
          \/ heap'[song_cache'[k]].album_cover # heap[song_cache[k]].album_cover)
         => \/ heap'[song_cache'[k]].album_cover = DefaultCover
            \/ /\ heap'[song_cache'[k]].album_cover = ArtUrl
               /\ lastTick'.first_art # 0
               /\ lastTick'.source = lastTick'.first_art]_vars

\* a track is cached with the cover URL that a stage verified
C18_Witness ==
    /\ lastTick.ref > 0 /\ lastTick.first_art # 0
    /\ lastTick.source = lastTick.first_art
    /\ heap[lastTick.ref].album_cover = ArtUrl
    /\ \E k \in DOMAIN song_cache : song_cache[k] = lastTick.ref

\* C19: whichever stage produces the result, the track the search returns
\* and caches shows the title the probe reported, not the catalog's
C19_OriginalTitleKept ==
    (lastTick.ok /\ lastTick.stages # <<>> /\ ~lastTick.raised)
    => /\ lastTick.rtitle = lastTick.title
       /\ lastTick.ref > 0 => heap[lastTick.ref].title = lastTick.title

(***************************************************************************)
(* Properties of a cache hit                                               *)
(***************************************************************************)
\* C20: on a cache hit (the tick returns a track that was in the cache and
\* no search is made) only the volatile fields of the cached track change:
\* title, artist, album art, artist image and link stay as they were;
\* elapsed, duration and playing take the sample's values; player is
\* written only if the cached track had none
C20_HitWritesVolatileOnly ==
    [][(/\ lastTick'.ok /\ ~lastTick'.raised
        /\ lastTick'.ref \in DOMAIN heap
        /\ searches' = searches
        /\ <<heap, lastTick>>' # <<heap, lastTick>>)
       => LET old == heap[lastTick'.ref]
              new == heap'[lastTick'.ref]
          IN  /\ new.title = old.title /\ new.artist = old.artist
              /\ new.album_cover = old.album_cover
              /\ new.artist_image = old.artist_image
              /\ new.song_link = old.song_link
              /\ new.elapsed = lastTick'.elapsed
              /\ new.duration = lastTick'.duration
              /\ new.playing = lastTick'.playing
              /\ new.player = IF Truthy(old.player) THEN old.player
                              ELSE lastTick'.player]_vars

(***************************************************************************)
(* Properties of the probe                                                 *)
(***************************************************************************)
\* C21: once the probe has reported that the now-playing tool is missing,
\* a later probe call gives the not-playing sample without starting the
\* tool again and without reporting the failure again.
C21_MissingToolReportedOnce ==
    [][(nowplaying_cli = "missing" /\ reports >= 1)
         => /\ spawns' = spawns
            /\ reports' = reports
            /\ ~lastTick'.rplaying]_vars

(***************************************************************************)
(* Properties of Config                                                    *)
(***************************************************************************)
NumberOrText == {v \in IntervalInputs : v.type \in {"int", "float", "str"}}

InRange(n) == MinInterval <= n /\ n <= MaxInterval

\* C22: for a number or a text, set_update_interval(v) returns (True, message)
\* and sets update_interval to the integer value exactly when that value lies
\* in 5..60; otherwise (below 5, above 60, text that is not a number) it
\* returns (False, message) and leaves update_interval unchanged.
C22_IntervalSetExactlyInRange ==
    [][\A v \in NumberOrText :
          SetUpdateInterval(v) =>
             IF int(v).err = None /\ InRange(int(v).val)
             THEN /\ lastCfg'.ok /\ lastCfg'.raised = None
                  /\ update_interval' = PyInt(int(v).val)
             ELSE /\ ~lastCfg'.ok /\ lastCfg'.raised = None
                  /\ update_interval' = update_interval]_vars

C22_Witness ==
    /\ lastCfg.op = "set_update_interval"
    /\ ~lastCfg.ok
    /\ lastCfg.raised = None
    /\ update_interval = PyInt(15)

\* C23: set_update_interval, set_client_id and add_player_alias never
\* throw: whatever the type of the arguments, each returns a pair.
C23_MutatorsNeverThrow ==
    lastCfg.op \in {"set_update_interval", "set_client_id", "add_player_alias"}
        => lastCfg.raised = None

\* C24: a rejected set_client_id or add_player_alias leaves update_interval,
\* discord_client_ids and player_aliases unchanged and does not write the
\* config file.
C24_RejectionChangesNothing ==
    [][(/\ \/ \E p \in NameInputs, c \in ClientIdInputs : SetClientId(p, c)
           \/ \E a \in AliasInputs, n \in TargetInputs : AddPlayerAlias(a, n)
        /\ ~lastCfg'.ok)
         => /\ UNCHANGED <<update_interval, discord_client_ids, player_aliases,
                           config_file>>
            /\ ~lastCfg'.saved]_vars

C24_Witness ==
    /\ lastCfg.op \in {"set_client_id", "add_player_alias"}
    /\ ~lastCfg.ok
    /\ lastCfg.raised = None
    /\ "Spotify" \in DictKeys(discord_client_ids)
    /\ "dz" \in DOMAIN player_aliases

\* C25: in every reachable state of Config update_interval is an integer
\* within 5..60.
C25_IntervalAlwaysValid ==
    update_interval.type = "int" /\ InRange(update_interval.num)

\* C26: whatever the config file holds, building the Config raises nothing,
\* and a field that is missing or invalid in the file keeps its default.
C26_LoadNeverRaisesKeepsDefaults ==
    lastCfg.op = "__init__" =>
        /\ lastCfg.raised = None
        /\ ~(config_file.update_interval.type = "int"
             /\ InRange(config_file.update_interval.num))
              => update_interval = PyInt(DEFAULT_UPDATE_INTERVAL)
        /\ config_file.discord_client_ids.type # "dict"
              => discord_client_ids = DEFAULT_DISCORD_CLIENT_IDS
        /\ config_file.player_aliases.type # "dict"
              => player_aliases = DEFAULT_PLAYER_ALIASES

(***************************************************************************)
(* Properties of the tray application                                      *)
(***************************************************************************)
PollerStep == UpdateNowPlaying \/ UpdateDiscordStatus

\* C27 as stated: the polling thread's calls only add to the update queue,
\* and a menu item is modified only inside process_ui_updates on the UI
\* thread.
C27_MenuOnlyInProcessUiUpdates ==
    [][/\ PollerStep => menu' = menu /\ Len(update_queue') = Len(update_queue) + 1
       /\ menu' # menu => menu_writer' = Writer("ui", "process_ui_updates")]_vars

\* C27: the polling thread's calls only add to the update queue, and a menu
\* item is modified only by the UI thread: inside process_ui_updates, or (in
\* music_rpc) inside the click callback set_interval.
C27_MenuOnlyOnUiThread ==
    [][/\ PollerStep => menu' = menu /\ Len(update_queue') = Len(update_queue) + 1
       /\ menu' # menu =>
             /\ menu_writer'.thread = "ui"
             /\ menu_writer'.handler \in {"process_ui_updates", "set_interval"}]_vars

C27_Witness ==
    /\ ui_pc = "process_ui_updates"
    /\ menu_writer = Writer("ui", "process_ui_updates")
    /\ menu.now_playing = "Song A"
    /\ Len(update_queue) = MaxQueue

(***************************************************************************)
(* Properties of the polling iteration                                     *)
(***************************************************************************)
\* C28: every external call of an iteration is made with a timeout, so
\* every polling iteration reaches its sleep again and again, even when an
\* external call never answers on its own.
C28_IterationReachesSleep == []<>(tick_pc = Sleeping)

(***************************************************************************)
(* Properties of the normalizer                                            *)
(***************************************************************************)
\* C29: _ensure_unicode is idempotent: applying it to its own result gives
\* that result again, also for a text whose decoding makes a new escape
\* sequence.
C29_NormalizerIdempotent ==
    [][(passes >= 1 /\ passes' = passes + 1) => norm_text' = norm_text]_vars

(***************************************************************************)
(* Properties of the protocol connection                                   *)
(***************************************************************************)
\* C30: when an operation opens a protocol connection while the manager
\* still holds one, the one it holds is closed first: no opened connection
\* is dropped without close(), so at most one is open.
C30_OldConnectionClosedFirst ==
    [][\A i \in 1..Len(lastOp'.calls) :
          (lastOp'.calls[i].call = "connect" /\ rpc # None)
             => \E j \in 1..(i - 1) : lastOp'.calls[j].call = "close"]_vars

(***************************************************************************)
(* Properties of connect()                                                 *)
(***************************************************************************)
\* C31: connect(player) made while connected with the identifier of that
\* player returns True, makes no protocol call, and leaves connected,
\* current_client_id, the connection object and last_title as they were.
C31_SameIdConnectIsNoOp ==
    [][\A player \in PubPlayers :
          (/\ lastOp'.op = "connect"
           /\ lastOp'.player = player
           /\ connected
           /\ current_client_id # None
           /\ get_client_id(IF Truthy(player) THEN player ELSE "Music") = current_client_id)
             => /\ lastOp'.ret
                /\ lastOp'.calls = <<>>
                /\ UNCHANGED <<rpc, connected, current_client_id, last_title>>]_vars

C31_Witness ==
    /\ lastOp.op = "connect"
    /\ lastOp.ret
    /\ lastOp.calls = <<>>
    /\ connected
    /\ last_title = "Song A"

(***************************************************************************)
(* Properties of the player identification                                 *)
(***************************************************************************)
\* the steps of the chain in their order of priority
ProcessChecks ==
    IF pkg = "music_rpc" THEN <<"Deezer">> \o MusicProcessChecks ELSE DeezerProcessChecks

ChainOrder ==
    <<"client_name", "bundle", "content">>
        \o [i \in 1..Len(ProcessChecks) |-> "pgrep " \o ProcessChecks[i]]
        \o <<"source">>

StepNames == [i \in 1..Len(identified.steps) |-> identified.steps[i].step]

\* C32: the player is found by a chain of steps in a fixed priority (the
\* client name of the probe, the bundle and content identifiers, the process
\* checks, the source sub-command) that stops at the first hit: a client
\* name in the probe's output is the player, the steps run are the first
\* steps of the chain, only the last of them can be the hit, and without a
\* hit the player is None.
C32_FirstHitWins ==
    identified.steps # <<>> =>
        /\ Truthy(probe_info.client_name) => identified.player = probe_info.client_name
        /\ StepNames = SubSeq(ChainOrder, 1, Len(StepNames))
        /\ \A i \in 1..(Len(identified.steps) - 1) : ~identified.steps[i].hit
        /\ identified.player = None <=> \A i \in 1..Len(identified.steps) : ~identified.steps[i].hit

(***************************************************************************)
(* Properties of the track cache                                           *)
(***************************************************************************)
\* C33: the cache never loses or replaces an entry: in every step each key
\* of song_cache stays a key and keeps its object (the same place in heap,
\* where objects are only ever added)
C33_CacheOnlyGrows ==
    [][/\ Len(heap') >= Len(heap)
       /\ \A k \in DOMAIN song_cache :
            k \in DOMAIN song_cache' /\ song_cache'[k] = song_cache[k]]_vars

\* a call answered from a cache that holds more than one track
C33_Witness ==
    /\ lastTick.ok /\ lastTick.ref > 0
    /\ Cardinality(DOMAIN song_cache) >= 2
    /\ searches[<<lastTick.title, "Artist X">>] = 1
    /\ \E k \in DOMAIN searches : k[1] # lastTick.title /\ searches[k] = 1

(***************************************************************************)
(* Properties of the update call's text                                    *)
(***************************************************************************)
\* C34: every text field of the update call (details, state, large_text,
\* small_text) has at most 128 characters, whatever the lengths of the
\* track's title, artist, album and player name
C34_FieldsWithinLimit ==
    \A f \in DOMAIN update_data : update_data[f] <= FieldLimit

(***************************************************************************)
(* Properties of update() and the connection that is open                  *)
(***************************************************************************)
\* C35: when update() has returned True for a playing track, the open
\* connection has been given that track's title by a successful update call
C35_TrueMeansDelivered ==
    (/\ lastOp.op = "update" /\ lastOp.ret
     /\ lastOp.playing /\ lastOp.title # NotPlayingTitle)
        => shown = lastOp.title

(***************************************************************************)
(* Properties of shutdown() and the update loop                            *)
(***************************************************************************)
\* C36: once shutdown() has returned (running is False after the start),
\* the iteration of the update loop that is under way makes no protocol
\* connect or update call
C36_NoCallsAfterShutdown ==
    [][(~running /\ pc = "tick" /\ LoopUpdate)
          => \A i \in 1..Len(lastOp'.calls) :
                lastOp'.calls[i].call \notin {"connect", "update"}]_vars

(***************************************************************************)
(* Properties of the startup paths                                         *)
(***************************************************************************)
\* a protocol update call that succeeded
Published ==
    \E i \in 1..Len(lastOp.calls) : lastOp.calls[i].call = "update" /\ lastOp.calls[i].ok

\* the presence service refused a call
Refused == \E i \in 1..Len(lastOp.calls) : ~lastOp.calls[i].ok

\* the catalog has been searched as often as the model follows it
SearchedOut == \E k \in DOMAIN searches : searches[k] >= MaxSearches

\* C37: with a track playing on a player that is not disabled from the
\* first iteration on, and a presence service that accepts every call, the
\* track's presence is eventually published, whatever the first probe found
C37_EventuallyPublished == <>(Published \/ Refused \/ SearchedOut)

(***************************************************************************)
(* Properties of the update loop and disabled players                      *)
(***************************************************************************)
\* C38: when an iteration of the update loop finds a disabled player
\* playing after an enabled player whose presence has been published, the
\* iteration clears the presence or closes the connection
C38_DisabledPlayerHidesPresence ==
    [][(/\ pc = "loop" /\ running
        /\ lastOp.op = "update" /\ Published
        /\ Truthy(last_player) /\ last_player \notin DISABLED_PLAYERS
        /\ last_player' # last_player
        /\ Truthy(last_player') /\ last_player' \in DISABLED_PLAYERS
        /\ was_playing')
          => \E i \in 1..Len(lastOp'.calls) :
                lastOp'.calls[i].call \in {"clear", "close"}]_vars

(***************************************************************************)
(* Properties of the disabled-player tests                                 *)
(***************************************************************************)
\* C39: for every player name the application loop takes the player as
\* disabled exactly when Config.get_client_id gives None for it
C39_DisabledTestsAgree ==
    tested.made => (tested.is_disabled <=> tested.client_id = None)

(***************************************************************************)
(* Properties of the tracks handed to the tray                             *)
(***************************************************************************)
\* C40: process_ui_updates shows, for every track it takes from the queue,
\* the title, artist, player and playing state the track had when the
\* polling thread queued it
C40_RendersWhatWasQueued ==
    rendered.made => rendered.now = rendered.queued

====
